---- MODULE Spec2Model ----
(***************************************************************************)
(* Model of the Tado X integration (custom_components/tado_x).             *)
(*                                                                         *)
(*   Spec      the API client (api.py): the shared credential, the         *)
(*             authenticated request with refresh-on-expiry and            *)
(*             retry-on-401, the home-scoped operations and the parallel   *)
(*             batch of offset writes.                                     *)
(*   SpecAuth  the device authorization flow of the client                 *)
(*             (start_device_auth, poll_for_token); FairSpecAuth adds the  *)
(*             fairness of its answers and sleeps.                         *)
(*   SpecEntry the coordinator's batch-offset entry point                  *)
(*             (async_batch_update_temperature_offsets) over the client.   *)
(*   SpecNorm  the snapshot normalization of _async_update_data            *)
(*             (coordinator.py:178-324) applied to every payload of a      *)
(*             bounded family.                                             *)
(*   SpecPoll  the poll cycle of the coordinator (_async_update_data and   *)
(*             async_geofencing_check), each fetch answered by the API     *)
(*             client with a payload or one of its errors.                 *)
(*   SpecSync  the auto-sync controller (_auto_sync_temperature_offsets)   *)
(*             called with every snapshot, mapping list and sensor state   *)
(*             of a bounded family.                                        *)
(*                                                                         *)
(* Temperatures and offsets are in hundredths of a degree; a float is a    *)
(* record [k, v, e] with k one of "num", "nan", "inf", "ninf".             *)
(*                                                                         *)
(* Tokens are numbers (0 is None), instants are seconds on one clock.      *)
(***************************************************************************)
EXTENDS Integers, Sequences, FiniteSets, TLC

\* ------------------------------------------------------------------ bounds
\* the clock stops advancing at MaxNow, in steps of TickSeconds
MaxNow == 600
TickSeconds == 300
\* the token endpoint issues at most this many token sets
MaxIssued == 3
\* offset of the local wall clock to UTC (a timezone-naive instant is local)
TzOffset == 3600
\* the room list has at most MaxRooms entries, otherDevices at most MaxOther
MaxRooms == 2
MaxOther == 2
\* a behaviour of SpecPoll runs at most MaxCycles poll cycles, a mobile
\* devices payload lists at most MaxMobile devices
MaxCycles == 2
MaxMobile == 2
\* room_configs has at most MaxMappings entries
MaxMappings == 2
\* poll_for_token is called with one of these intervals, in seconds
PollIntervals == {100, 150, 300}

\* ------------------------------------------------------- program constants
\* api.py:205   now >= expiry - timedelta(seconds=60)
RefreshMargin == 60
\* api.py:181   data.get("expires_in", 600)
DefaultExpiresIn == 600
\* api.py:117   timeout: int = 300
PollTimeout == 300

\* coordinator.py:419   max(-3.0, min(3.0, calculated_offset)), in hundredths
ClampLow == -300
ClampHigh == 300

\* ---------------------------------------------------------------- values
Serials == {"A", "B"}

NoExpiry == [has |-> FALSE, t |-> 0, aware |-> FALSE]

\* every operation of the client that takes a home (api.py:268-423), and get_me
HomeOps ==
    {"get_home_state", "get_mobile_devices", "set_presence", "get_rooms",
     "get_rooms_and_devices", "set_room_temperature", "set_room_off",
     "resume_schedule", "set_boost_mode", "resume_all_schedules",
     "set_open_window_detection", "set_device_temperature_offset"}

Ops == HomeOps \cup {"get_me"}

\* the operations that start with "if not self._home_id: raise TadoXApiError"
GuardedOpsNoPresence == HomeOps \ {"set_presence"}

GuardedOps == HomeOps

\* what the token endpoint can answer to a refresh: 200 with a token set
\* (refresh_token and expires_in are optional), a non-200 status, a network error
RefreshAnswers ==
    [status : {200}, newRefresh : BOOLEAN, expiresIn : {0, 60}]
    \cup {[status |-> 400, newRefresh |-> FALSE, expiresIn |-> 0],
          [status |-> -1, newRefresh |-> FALSE, expiresIn |-> 0]}

\* what the API can answer to a request: a status, 200 with zero content
\* length ("200empty"), or a network error
ApiAnswers == {"200", "200empty", "201", "204", "401", "500", "neterr"}

\* no answer of the token endpoint yet
NoAnswer == [status |-> 0, newRefresh |-> FALSE, expiresIn |-> 0]

IdleTask ==
    [pc |-> "idle", evCalls |-> 0, evPosts |-> 0, calls401 |-> 0, posts401 |-> 0,
     sends |-> 0, tok1 |-> 0, tok2 |-> 0, st1 |-> "", st2 |-> "",
     evTok |-> 0, tok401 |-> 0, rtSent |-> 0, near |-> FALSE, ans |-> NoAnswer,
     out |-> "none"]

NoResults == [s \in Serials |-> "absent"]

\* no start_device_auth or poll_for_token call yet
IdleAuth == [pc |-> "idle", interval |-> 0, timeout |-> 0, start_time |-> 0,
             posts |-> 0, sleeps |-> 0, last |-> "", out |-> "none"]

NoCall == [kind |-> "none", op |-> "", keys |-> {}, home |-> 0,
           access |-> 0, refresh |-> 0, expiry |-> NoExpiry]

\* no async_batch_update_temperature_offsets call yet
IdleEntry == [pc |-> "idle", refreshRequests |-> 0, results |-> NoResults,
              out |-> "none"]

\* ------------------------------------------------------ snapshot values
EmptyMap == [x \in {} |-> 0]

MapPut(m, k, v) == (k :> v) @@ m

\* a dict in insertion order: assigning an existing key keeps its position
EmptyDict == [order |-> <<>>, at |-> EmptyMap]

DictPut(d, k, v) ==
    [order |-> IF k \in DOMAIN d.at THEN d.order ELSE Append(d.order, k),
     at |-> MapPut(d.at, k, v)]

\* TadoXData(home_id, home_name, presence); oid numbers the objects built,
\* gen tells the TadoXData objects of the poll cycles apart (0: not of a cycle)
NewData(presence) ==
    [built |-> TRUE, presence |-> presence, rooms |-> EmptyDict,
     devices |-> EmptyMap, other_devices |-> <<>>, oid |-> 1, gen |-> 0]

NoData == [NewData("") EXCEPT !.built = FALSE]

\* room ids and names of the payloads (id 0: the key is missing or null)
RoomName(i) == IF i = 1 THEN "Living" ELSE IF i = 2 THEN "Bedroom" ELSE "Attic"

RoomPayloads == [id : {0, 1, 2}]

\* the devices the roomsAndDevices payload lists under rooms
ValveOrder == <<"V1", "V2", "V3">>

ValveSerials == {ValveOrder[i] : i \in DOMAIN ValveOrder}

ValvePayload(v) == [serialNumber |-> v, type |-> "VA04"]

\* the device list of room r when `place` gives each valve its room (0: none)
ValvesOf(r, place) ==
    LET InRoom(v) == place[v] = r
        mine == SelectSeq(ValveOrder, InRoom)
    IN  [i \in DOMAIN mine |-> ValvePayload(mine[i])]

RoomsInfo(place) ==
    <<[roomId |-> 1, devices |-> ValvesOf(1, place)],
      [roomId |-> 2, devices |-> ValvesOf(2, place)]>>

OtherSerial(i) == IF i = 1 THEN "T1" ELSE IF i = 2 THEN "T2" ELSE "T3"

OtherPayloads(n) ==
    {[i \in 1..n |-> [serialNumber |-> OtherSerial(i), type |-> f[i].type,
                       roomId |-> f[i].roomId]] :
        f \in [1..n -> [type : {"TR04", "IB02"}, roomId : {0, 1, 2}]]}

SeqsUpTo(S, n) == UNION {[1..k -> S] : k \in 0..n}

VARIABLES
    accessToken,    \* TadoXApi._access_token (0: None)
    refreshToken,   \* TadoXApi._refresh_token (0: None)
    tokenExpiry,    \* TadoXApi._token_expiry
    homeId,         \* TadoXApi._home_id (0: None)
    now,            \* the clock, in seconds (UTC)
    issued,         \* token sets the token endpoint has issued so far
    task,           \* the _request coroutines of the call in progress
    call,           \* the client call in progress or last completed, and the
                    \* home id and credential it was called with
    callOut,        \* how that call ended ("pending": in progress)
    results,        \* the mapping the last batch call returned
    auth,           \* the locals of the start_device_auth or poll_for_token
                    \* call in progress or last completed
    normIn,         \* SpecNorm: the payloads rooms_data and rooms_devices_data
    normOut,        \* SpecNorm: the TadoXData built from them
    config,         \* the coordinator's options (geofencing_enabled, ...)
    pollPc,         \* where _async_update_data is suspended ("idle": no cycle)
    cyc,            \* the locals of the cycle in progress or last ended
    coordData,      \* coordinator.data, the published snapshot
    lastUpdateSuccess,  \* coordinator.last_update_success
    dataAtStart,    \* coordinator.data when the last cycle started
    cycles,         \* cycles started so far
    entry,          \* the locals of the async_batch_update_temperature_offsets
                    \* call in progress or last completed
    syncIn,         \* SpecSync: the snapshot's devices, room_configs, the
                    \* sensor states and offset_hysteresis
    syncPc,         \* where _auto_sync_temperature_offsets is
    submitted,      \* the offsets it passed to set_multiple_device_temperature_offsets
    syncOut,        \* how that call ended
    syncLog,        \* what the loop logged for each room_config, in order
    entryData,      \* the token set persisted in the config entry, as its
                    \* number in the order of issuance
    switchLog       \* what each call of a switch entity's async_turn_on or
                    \* async_turn_off did, in the order of the calls

apiVars == <<accessToken, refreshToken, tokenExpiry, homeId, now, issued,
             task, call, callOut, results, auth>>

normVars == <<normIn, normOut>>

pollVars == <<config, pollPc, cyc, coordData, lastUpdateSuccess, dataAtStart,
             cycles, entry>>

syncVars == <<syncIn, syncPc, submitted, syncOut, syncLog>>

\* what Home Assistant holds besides the coordinator
hassVars == <<entryData, switchLog>>

\* the variables the API client does not touch
otherVars == <<normVars, pollVars, syncVars, hassVars>>

vars == <<apiVars, normVars, pollVars, syncVars, hassVars>>

\* a call of the client is in progress
Busy == callOut = "pending"

\* ------------------------------------------------------------ TokenManager

\* ensure_valid_token's clock: UTC now, or the naive local now for a naive expiry
EnsureNow(e) == IF e.aware THEN now ELSE now + TzOffset

\* ensure_valid_token, lines 196-205: the token expires within 60 seconds
NeedsRefreshNoMargin ==
    /\ tokenExpiry.has
    /\ EnsureNow(tokenExpiry) >= tokenExpiry.t

NeedsRefreshWhenever == tokenExpiry.has

NeedsRefresh ==
    /\ tokenExpiry.has
    /\ EnsureNow(tokenExpiry) >= tokenExpiry.t - RefreshMargin

\* refresh_access_token, lines 178-183: the credential after a 200 answer
RefreshedExpiry(r) ==
    [has |-> TRUE, aware |-> TRUE,
     t |-> now + (IF r.expiresIn = 0 THEN DefaultExpiresIn ELSE r.expiresIn)]

RefreshedRefreshTokenDropped(r) == IF r.newRefresh THEN issued + 1 ELSE 0

RefreshedRefreshToken(r) == IF r.newRefresh THEN issued + 1 ELSE refreshToken

\* ------------------------------------------------- ResilientRequestClient

\* _request up to its first suspension: ensure_valid_token, then either the
\* refresh POST or the API request is in flight
StartRequest ==
    LET t0 == [IdleTask EXCEPT !.near =
                  tokenExpiry.has /\
                  (IF tokenExpiry.aware THEN tokenExpiry.t ELSE tokenExpiry.t - TzOffset)
                      <= now + RefreshMargin]
    IN  IF accessToken = 0
        THEN [t0 EXCEPT !.pc = "done", !.out = "AuthError"]
        ELSE IF NeedsRefresh
        THEN IF refreshToken = 0
             THEN [t0 EXCEPT !.pc = "done", !.out = "AuthError", !.evCalls = 1]
             ELSE [t0 EXCEPT !.pc = "evRefresh", !.evCalls = 1, !.evPosts = 1,
                             !.rtSent = refreshToken]
        ELSE [t0 EXCEPT !.pc = "wait1", !.sends = 1, !.tok1 = accessToken]

\* the Authorization header of the retry (line 232)
StaleRetryToken(t, fresh) == t.tok1

RetryToken(t, fresh) == fresh

\* refresh_access_token, lines 173-187: how the exchange ends (-1: the POST
\* raised aiohttp.ClientError)
RefreshOutcomeNetworkAsApiError(r) ==
    IF r.status = 200 THEN "ok" ELSE IF r.status = -1 THEN "ApiError" ELSE "AuthError"

RefreshOutcomeAnyStatus(r) == IF r.status = -1 THEN "AuthError" ELSE "ok"

RefreshOutcome(r) == IF r.status = 200 THEN "ok" ELSE "AuthError"

\* how _request ends when the refresh of task t fails: TadoXAuthError is no
\* aiohttp.ClientError, so the except clause of line 254 lets it through
RequestOutOfFailedRefreshWrapped(t, r) ==
    IF t.pc = "r401" THEN "ApiError" ELSE RefreshOutcome(r)

RequestOutOfFailedRefresh(t, r) == RefreshOutcome(r)

\* the token endpoint answers the refresh POST of task s
RefreshResponse(s, r) ==
    /\ task[s].pc \in {"evRefresh", "r401"}
    /\ IF RefreshOutcome(r) = "ok"
       THEN /\ issued < MaxIssued
            /\ issued' = issued + 1
            /\ accessToken' = issued + 1
            /\ refreshToken' = RefreshedRefreshToken(r)
            /\ tokenExpiry' = RefreshedExpiry(r)
            /\ task' = [task EXCEPT ![s] =
                  IF @.pc = "evRefresh"
                  THEN [@ EXCEPT !.pc = "wait1", !.sends = 1, !.evTok = issued + 1,
                                 !.tok1 = issued + 1, !.ans = r]
                  ELSE [@ EXCEPT !.pc = "wait2", !.sends = @ + 1, !.tok401 = issued + 1,
                                 !.tok2 = RetryToken(task[s], issued + 1), !.ans = r]]
       ELSE /\ task' = [task EXCEPT ![s] =
                  [@ EXCEPT !.pc = "done", !.out = RequestOutOfFailedRefresh(task[s], r),
                            !.ans = r]]
            /\ UNCHANGED <<issued, accessToken, refreshToken, tokenExpiry>>
    /\ UNCHANGED <<homeId, now, call, callOut, results>>
    /\ UNCHANGED <<auth, otherVars>>

\* what _request does with the answer to the retry (lines 239-244)
RetryOutcome(st) ==
    IF st = "200" THEN "json"
    ELSE IF st = "200empty" THEN "null"
    ELSE "ApiError"

\* what _request does with a first answer other than 401 (lines 246-255)
FirstOutcomeAny2xx(st) ==
    IF st \in {"200", "201"} THEN "json"
    ELSE IF st \in {"200empty", "204"} THEN "null"
    ELSE "ApiError"

FirstOutcome(st) ==
    IF st = "200" THEN "json"
    ELSE IF st \in {"200empty", "204"} THEN "null"
    ELSE "ApiError"

\* the task after a first answer of 401 (line 231): refresh_access_token
Handle401(t) ==
    IF refreshToken = 0
    THEN [t EXCEPT !.st1 = "401", !.pc = "done", !.out = "AuthError", !.calls401 = 1]
    ELSE [t EXCEPT !.st1 = "401", !.pc = "r401", !.calls401 = @ + 1, !.posts401 = @ + 1,
                   !.rtSent = refreshToken]

\* the API answers the first request of task s
ApiResponse(s, st) ==
    /\ task[s].pc = "wait1"
    /\ task' = [task EXCEPT ![s] =
          IF st = "401"
          THEN Handle401(@)
          ELSE [@ EXCEPT !.st1 = st, !.pc = "done", !.out = FirstOutcome(st)]]
    /\ UNCHANGED <<accessToken, refreshToken, tokenExpiry, homeId, now, issued,
                   call, callOut, results>>
    /\ UNCHANGED <<auth, otherVars>>

\* the API answers the retry of task s
RetryResponseRefreshesAgain(s, st) ==
    /\ task[s].pc = "wait2"
    /\ task' = [task EXCEPT ![s] =
          IF st = "401"
          THEN [Handle401(@) EXCEPT !.st2 = st]
          ELSE [@ EXCEPT !.st2 = st, !.pc = "done", !.out = RetryOutcome(st)]]
    /\ UNCHANGED <<accessToken, refreshToken, tokenExpiry, homeId, now, issued,
                   call, callOut, results>>
    /\ UNCHANGED <<auth, otherVars>>

RetryResponse(s, st) ==
    /\ task[s].pc = "wait2"
    /\ task' = [task EXCEPT ![s] =
          [@ EXCEPT !.st2 = st, !.pc = "done", !.out = RetryOutcome(st)]]
    /\ UNCHANGED <<accessToken, refreshToken, tokenExpiry, homeId, now, issued,
                   call, callOut, results>>
    /\ UNCHANGED <<auth, otherVars>>

\* --------------------------------------------------------- DeviceAPISurface

CallRecord(kind, op, keys) ==
    [kind |-> kind, op |-> op, keys |-> keys, home |-> homeId,
     access |-> accessToken, refresh |-> refreshToken, expiry |-> tokenExpiry]

\* one operation of the client is called: its home check, then its _request
CallOp(op) ==
    /\ ~Busy
    /\ results' = NoResults
    /\ IF op \in GuardedOps /\ homeId = 0
       THEN /\ callOut' = "ApiError"
            /\ call' = CallRecord("op", op, {})
            /\ task' = [s \in Serials |-> IdleTask]
       ELSE /\ callOut' = "pending"
            /\ call' = CallRecord("op", op, {"A"})
            /\ task' = [s \in Serials |-> IF s = "A" THEN StartRequest ELSE IdleTask]
    /\ UNCHANGED <<accessToken, refreshToken, tokenExpiry, homeId, now, issued>>
    /\ auth' = IdleAuth
    /\ UNCHANGED otherVars

\* the operation's _request has ended: the operation returns or raises
OpReturn ==
    /\ Busy
    /\ call.kind = "op"
    /\ task["A"].pc = "done"
    /\ callOut' = (IF task["A"].out \in {"json", "null"} THEN "returned" ELSE task["A"].out)
    /\ UNCHANGED <<accessToken, refreshToken, tokenExpiry, homeId, now, issued,
                   task, call, results>>
    /\ UNCHANGED <<auth, otherVars>>

\* ------------------------------------------------------- BatchOffsetExecutor

\* set_single_offset (lines 446-457): the entry's status
SingleOffsetStatusAllOrNothing(s) ==
    IF \A k \in call.keys : task[k].out \in {"json", "null"} THEN "success" ELSE "error"

SingleOffsetStatus(s) ==
    IF task[s].out \in {"json", "null"} THEN "success" ELSE "error"

\* set_multiple_device_temperature_offsets up to the gather: the home check,
\* then every set_single_offset runs to its first suspension
StartBatch(keys) ==
    /\ ~Busy
    /\ results' = NoResults
    /\ IF homeId = 0
       THEN /\ callOut' = "ApiError"
            /\ call' = CallRecord("batch", "", keys)
            /\ task' = [s \in Serials |-> IdleTask]
       ELSE /\ callOut' = "pending"
            /\ call' = CallRecord("batch", "", keys)
            /\ task' = [s \in Serials |-> IF s \in keys THEN StartRequest ELSE IdleTask]
    /\ UNCHANGED <<accessToken, refreshToken, tokenExpiry, homeId, now, issued>>
    /\ auth' = IdleAuth

\* the client's batch is called on its own
CallBatch(keys) ==
    /\ StartBatch(keys)
    /\ UNCHANGED otherVars

\* the gather has joined every task: the result mapping is built and returned
BatchReturn ==
    /\ Busy
    /\ call.kind = "batch"
    /\ \A s \in call.keys : task[s].pc = "done"
    /\ results' = [s \in Serials |->
                      IF s \in call.keys THEN SingleOffsetStatus(s) ELSE "absent"]
    /\ callOut' = "returned"
    /\ UNCHANGED <<accessToken, refreshToken, tokenExpiry, homeId, now, issued,
                   task, call>>
    /\ UNCHANGED <<auth, otherVars>>

\* ------------------------------------------- the batch-offset entry point

\* coordinator.py:124: async_request_refresh is awaited once, whatever the
\* result mapping holds
RefreshRequestsOnlyOnSuccess(res) ==
    IF \E s \in Serials : res[s] = "error" THEN 0 ELSE 1

RefreshRequests(res) == 1

\* async_batch_update_temperature_offsets up to the first suspension of
\* set_multiple_device_temperature_offsets (lines 120-121); its raise ends
\* the entry point
BatchUpdateCall(keys) ==
    /\ entry.pc \in {"idle", "done"}
    /\ StartBatch(keys)
    /\ entry' = IF callOut' = "pending"
                THEN [IdleEntry EXCEPT !.pc = "writing"]
                ELSE [IdleEntry EXCEPT !.pc = "done", !.out = callOut']
    /\ UNCHANGED <<config, pollPc, cyc, coordData, lastUpdateSuccess, dataAtStart,
                   cycles, normVars, syncVars, hassVars>>

\* the batch has returned its mapping: async_request_refresh is called
\* (lines 121-124)
BatchUpdateRefresh ==
    /\ entry.pc = "writing"
    /\ call.kind = "batch"
    /\ callOut = "returned"
    /\ entry' = [entry EXCEPT !.pc = "refreshing", !.results = results,
                              !.refreshRequests = @ + RefreshRequests(results)]
    /\ UNCHANGED <<config, pollPc, cyc, coordData, lastUpdateSuccess, dataAtStart,
                   cycles, apiVars, normVars, syncVars, hassVars>>

\* async_request_refresh has returned: the mapping is returned (line 126)
BatchUpdateReturn ==
    /\ entry.pc = "refreshing"
    /\ entry' = [entry EXCEPT !.pc = "done", !.out = "returned"]
    /\ UNCHANGED <<config, pollPc, cyc, coordData, lastUpdateSuccess, dataAtStart,
                   cycles, apiVars, normVars, syncVars, hassVars>>

\* ----------------------------------------------------- the switch entities

\* the calls of switch handlers a behaviour holds
MaxSwitchCalls == 3

\* the attributes of a TadoXApi object: its methods and properties
ApiAttributes ==
    Ops \cup {"access_token", "refresh_token", "token_expiry", "home_id",
              "start_device_auth", "poll_for_token", "refresh_access_token",
              "ensure_valid_token", "_request", "get_homes",
              "set_multiple_device_temperature_offsets"}

\* switch.py:86, 91, 179, 184: the attribute of coordinator.api the handler calls
SwitchOperation(entity) ==
    IF entity = "boost_mode" THEN "set_room_boost" ELSE "set_device_child_lock"

\* async_turn_on / async_turn_off: the attribute lookup on coordinator.api
\* raises AttributeError, or the write is awaited and ends with err, and
\* after a write that returned async_request_refresh is awaited
SwitchTurnResult(operation, err) ==
    IF operation \notin ApiAttributes
    THEN [out |-> "AttributeError", writes |-> 0, refreshRequests |-> 0]
    ELSE IF err # "none"
    THEN [out |-> err, writes |-> 1, refreshRequests |-> 0]
    ELSE [out |-> "returned", writes |-> 1, refreshRequests |-> 1]

\* the call of a handler and what it did
SwitchTurn(entity, room_id, serial, on, err) ==
    [entity |-> entity, room_id |-> room_id, serial |-> serial, on |-> on,
     operation |-> SwitchOperation(entity),
     result |-> SwitchTurnResult(SwitchOperation(entity), err)]

\* TadoXBoostModeSwitch.async_turn_on / async_turn_off of the switch of a room
\* (switch.py:84-92)
BoostModeTurn(room_id, on, err) ==
    /\ Len(switchLog) < MaxSwitchCalls
    /\ switchLog' = Append(switchLog, SwitchTurn("boost_mode", room_id, "", on, err))
    /\ UNCHANGED <<apiVars, normVars, pollVars, syncVars, entryData>>

\* TadoXChildLockSwitch.async_turn_on / async_turn_off of the switch of a
\* device (switch.py:177-185)
ChildLockTurn(serial, on, err) ==
    /\ Len(switchLog) < MaxSwitchCalls
    /\ switchLog' = Append(switchLog, SwitchTurn("child_lock", 0, serial, on, err))
    /\ UNCHANGED <<apiVars, normVars, pollVars, syncVars, entryData>>

\* ------------------------------------------------- device authorization

\* what the authorization endpoint can answer to start_device_auth: a status,
\* or the POST raises asyncio.TimeoutError, aiohttp.ClientError, ssl.SSLError
\* or another exception
DeviceAuthAnswers == {"200", "400", "timeout", "neterr", "sslerr", "other"}

\* start_device_auth, lines 97-115
StartDeviceAuthOutcome(ans) == IF ans = "200" THEN "returned" ELSE "AuthError"

\* start_device_auth up to its POST (lines 78-95)
CallStartDeviceAuth ==
    /\ ~Busy
    /\ callOut' = "pending"
    /\ call' = CallRecord("start_device_auth", "", {})
    /\ task' = [s \in Serials |-> IdleTask]
    /\ results' = NoResults
    /\ auth' = [IdleAuth EXCEPT !.pc = "authPost", !.posts = 1]
    /\ UNCHANGED <<accessToken, refreshToken, tokenExpiry, homeId, now, issued>>
    /\ UNCHANGED otherVars

\* the authorization endpoint answers: the call returns the answer or raises
DeviceAuthResponse(ans) ==
    /\ auth.pc = "authPost"
    /\ auth' = [auth EXCEPT !.pc = "done", !.last = ans,
                            !.out = StartDeviceAuthOutcome(ans)]
    /\ callOut' = StartDeviceAuthOutcome(ans)
    /\ UNCHANGED <<accessToken, refreshToken, tokenExpiry, homeId, now, issued,
                   task, call, results>>
    /\ UNCHANGED otherVars

\* what the token endpoint can answer to a poll: 200 with a token set
\* (refresh_token and expires_in are optional), the authorization_pending
\* error, another error, or the POST raises aiohttp.ClientError
TokenAnswers ==
    [kind : {"token"}, newRefresh : BOOLEAN, expiresIn : {0, 60}]
    \cup [kind : {"pending", "error", "neterr"}, newRefresh : {FALSE}, expiresIn : {0}]

\* timedelta.seconds: the seconds within the day of a duration
SecondsPerDay == 86400

Seconds(d) == d % SecondsPerDay

\* line 123, the loop condition at instant t
BudgetLeftBeforeLastSleep(a, t) == Seconds(t - a.start_time) + a.interval < a.timeout

BudgetLeft(a, t) == Seconds(t - a.start_time) < a.timeout

\* lines 123-133 and 156: the loop polls again, or poll_for_token returns False
PollLoop(a, t) ==
    IF BudgetLeft(a, t)
    THEN [a EXCEPT !.pc = "tokenPost", !.posts = @ + 1]
    ELSE [a EXCEPT !.pc = "done", !.out = "False"]

\* how the call stands for its caller
PollCallOut(a) == IF a.pc = "done" THEN a.out ELSE "pending"

\* poll_for_token up to its first POST (lines 122-133)
CallPollForToken(interval, timeout) ==
    /\ ~Busy
    /\ now + timeout <= MaxNow
    /\ call' = CallRecord("poll_for_token", "", {})
    /\ task' = [s \in Serials |-> IdleTask]
    /\ results' = NoResults
    /\ auth' = PollLoop([IdleAuth EXCEPT !.interval = interval, !.timeout = timeout,
                                         !.start_time = now], now)
    /\ callOut' = PollCallOut(auth')
    /\ UNCHANGED <<accessToken, refreshToken, tokenExpiry, homeId, now, issued>>
    /\ UNCHANGED otherVars

\* lines 136-154: what poll_for_token does with an answer
PollAnswerOutcomeNetworkFatal(ans) ==
    IF ans.kind = "token" THEN "True"
    ELSE IF ans.kind = "pending" THEN "sleep"
    ELSE "AuthError"

PollAnswerOutcome(ans) ==
    IF ans.kind = "token" THEN "True"
    ELSE IF ans.kind \in {"pending", "neterr"} THEN "sleep"
    ELSE "AuthError"

\* lines 137-140: the credential after a 200 answer; the expiry is a naive
\* local instant
PolledExpiry(ans) ==
    [has |-> TRUE, aware |-> FALSE,
     t |-> now + TzOffset + (IF ans.expiresIn = 0 THEN DefaultExpiresIn ELSE ans.expiresIn)]

PolledRefreshToken(ans) == IF ans.newRefresh THEN issued + 1 ELSE 0

\* the token endpoint answers the poll
PollResponse(ans) ==
    /\ auth.pc = "tokenPost"
    /\ IF PollAnswerOutcome(ans) = "True"
       THEN /\ issued < MaxIssued
            /\ issued' = issued + 1
            /\ accessToken' = issued + 1
            /\ refreshToken' = PolledRefreshToken(ans)
            /\ tokenExpiry' = PolledExpiry(ans)
            /\ auth' = [auth EXCEPT !.pc = "done", !.last = ans.kind, !.out = "True"]
       ELSE /\ auth' = IF PollAnswerOutcome(ans) = "sleep"
                       THEN [auth EXCEPT !.pc = "sleeping", !.last = ans.kind]
                       ELSE [auth EXCEPT !.pc = "done", !.last = ans.kind,
                                         !.out = "AuthError"]
            /\ UNCHANGED <<issued, accessToken, refreshToken, tokenExpiry>>
    /\ callOut' = PollCallOut(auth')
    /\ UNCHANGED <<homeId, now, task, call, results>>
    /\ UNCHANGED otherVars

\* asyncio.sleep(interval) is over (lines 145-146, 154): back to line 123
PollWake ==
    /\ auth.pc = "sleeping"
    /\ now' = now + auth.interval
    /\ auth' = PollLoop([auth EXCEPT !.sleeps = @ + 1], now')
    /\ callOut' = PollCallOut(auth')
    /\ UNCHANGED <<accessToken, refreshToken, tokenExpiry, homeId, issued,
                   task, call, results>>
    /\ UNCHANGED otherVars

\* ------------------------------------------------------ SnapshotNormalizer

\* lines 186-192: room_devices_map, room id -> device payloads
RECURSIVE RoomDevicesMap(_, _)
RoomDevicesMap(rooms_info, m) ==
    IF rooms_info = <<>> THEN m
    ELSE LET room_info == Head(rooms_info)
         IN  RoomDevicesMap(Tail(rooms_info),
                 IF room_info.roomId # 0
                 THEN MapPut(m, room_info.roomId, room_info.devices)
                 ELSE m)

\* lines 258-274: the devices of one room, appended to the room and indexed
RECURSIVE AddRoomDevices(_, _, _)
AddRoomDevices(device_datas, room, data) ==
    IF device_datas = <<>> THEN [room |-> room, data |-> data]
    ELSE LET device_data == Head(device_datas)
             device == [oid |-> data.oid,
                        serial_number |-> device_data.serialNumber,
                        device_type |-> device_data.type,
                        room_id |-> room.room_id,
                        room_name |-> room.name]
         IN  AddRoomDevices(Tail(device_datas),
                 [room EXCEPT !.devices = Append(@, device)],
                 [data EXCEPT !.devices = MapPut(@, device.serial_number, device),
                              !.oid = @ + 1])

\* JSON values of a room state: None, a dict, a number, a string; Raise marks
\* the AttributeError of a .get on a value that is no dict
Null == [kind |-> "null"]

Raise == [kind |-> "raise"]

Obj(at) == [kind |-> "obj", at |-> at]

JNum(n) == [kind |-> "num", n |-> n]

JStr(str) == [kind |-> "str", str |-> str]

\* o.get(k, default)
DictGet(o, k, default) ==
    IF o.kind # "obj" THEN Raise
    ELSE IF k \in DOMAIN o.at THEN o.at[k] ELSE default

\* bool(x) is False: None, an empty dict
Falsy(x) == x.kind = "null" \/ (x.kind = "obj" /\ DOMAIN x.at = {})

\* x or {}
OrEmptyKeepsNull(x) == x

OrEmpty(x) == IF x.kind # "raise" /\ Falsy(x) THEN Obj(EmptyMap) ELSE x

\* room_data.get(k), room_data being the room-state payload
RoomGet(room_data, k) == IF k \in DOMAIN room_data THEN room_data[k] ELSE Null

\* room_data.get(k) or {}
RoomObject(room_data, k) == OrEmpty(RoomGet(room_data, k))

\* o.get(k) or {}
SubObject(o, k) == OrEmpty(DictGet(o, k, Null))

\* lines 216-219: manual_control.get(k) when manual_control is truthy
ManualControlField(manual_control, k) ==
    IF Falsy(manual_control) THEN Null ELSE DictGet(manual_control, k, Null)

\* lines 200-242: the fields of TadoXRoom read from the nested objects
RoomFields(room_data) ==
    [current_temperature |->
         DictGet(SubObject(RoomObject(room_data, "sensorDataPoints"), "insideTemperature"),
                 "value", Null),
     humidity |->
         DictGet(SubObject(RoomObject(room_data, "sensorDataPoints"), "humidity"),
                 "percentage", Null),
     target_temperature |->
         DictGet(SubObject(RoomObject(room_data, "setting"), "temperature"), "value", Null),
     power |-> DictGet(RoomObject(room_data, "setting"), "power", JStr("OFF")),
     heating_power |-> DictGet(RoomObject(room_data, "heatingPower"), "percentage", JNum(0)),
     connection_state |->
         DictGet(RoomObject(room_data, "connection"), "state", JStr("DISCONNECTED")),
     manual_control_active |-> RoomGet(room_data, "manualControlTermination") # Null,
     manual_control_remaining_seconds |->
         ManualControlField(RoomGet(room_data, "manualControlTermination"),
                            "remainingTimeInSeconds"),
     manual_control_type |->
         ManualControlField(RoomGet(room_data, "manualControlTermination"), "type"),
     next_schedule_change |->
         DictGet(RoomObject(room_data, "nextScheduleChange"), "start", Null),
     next_schedule_temperature |->
         DictGet(SubObject(SubObject(RoomObject(room_data, "nextScheduleChange"), "setting"),
                           "temperature"),
                 "value", Null)]

\* one of the reads of lines 200-242 raised
FieldsRaised(fields) ==
    \E f \in DOMAIN fields \ {"manual_control_active"} : fields[f] = Raise

\* lines 225-241: TadoXRoom(...)
NewRoom(room_id, fields) ==
    [room_id |-> room_id, name |-> RoomName(room_id), devices |-> <<>>,
     fields |-> fields, raised |-> FieldsRaised(fields)]

\* lines 195-276: the rooms, from the room states
RECURSIVE ProcessRooms(_, _, _)
ProcessRooms(rooms_data, room_devices_map, data) ==
    IF rooms_data = <<>> THEN data
    ELSE LET room_data == Head(rooms_data)
             room_id == room_data.id
         IN  IF room_id = 0
             THEN ProcessRooms(Tail(rooms_data), room_devices_map, data)
             ELSE LET room == NewRoom(room_id, RoomFields(room_data))
                      mine == IF room_id \in DOMAIN room_devices_map
                              THEN room_devices_map[room_id] ELSE <<>>
                      r == AddRoomDevices(mine, room, data)
                  IN  ProcessRooms(Tail(rooms_data), room_devices_map,
                          [r.data EXCEPT !.rooms = DictPut(@, room_id, r.room)])

\* lines 280-286: the first room, in dict order, with the most devices (0: None)
RECURSIVE RoomWithMostDevices(_, _, _, _)
RoomWithMostDevices(order, rooms, best, max_device_count) ==
    IF order = <<>> THEN best
    ELSE LET device_count == Len(rooms[Head(order)].devices)
         IN  IF device_count > max_device_count
             THEN RoomWithMostDevices(Tail(order), rooms, Head(order), device_count)
             ELSE RoomWithMostDevices(Tail(order), rooms, best, max_device_count)

\* lines 290-308: the room id and name an other-device gets
OtherRoom(device_data, data, room_with_most_devices) ==
    LET other_room_id == device_data.roomId
    IN  IF other_room_id # 0 /\ other_room_id \in DOMAIN data.rooms.at
        THEN [id |-> other_room_id, name |-> data.rooms.at[other_room_id].name]
        ELSE IF device_data.type = "TR04" /\ room_with_most_devices # 0
        THEN [id |-> room_with_most_devices,
              name |-> data.rooms.at[room_with_most_devices].name]
        ELSE [id |-> other_room_id, name |-> ""]

\* lines 288-324: the other devices (bridge, thermostat)
RECURSIVE ProcessOtherDevices(_, _, _)
ProcessOtherDevices(device_datas, data, room_with_most_devices) ==
    IF device_datas = <<>> THEN data
    ELSE LET device_data == Head(device_datas)
             other == OtherRoom(device_data, data, room_with_most_devices)
             device == [oid |-> data.oid,
                        serial_number |-> device_data.serialNumber,
                        device_type |-> device_data.type,
                        room_id |-> other.id,
                        room_name |-> other.name]
             rooms == IF other.id # 0 /\ other.id \in DOMAIN data.rooms.at
                      THEN [data.rooms EXCEPT !.at[other.id].devices = Append(@, device)]
                      ELSE data.rooms
         IN  ProcessOtherDevices(Tail(device_datas),
                 [data EXCEPT !.rooms = rooms,
                              !.other_devices = Append(@, device),
                              !.devices = MapPut(@, device.serial_number, device),
                              !.oid = @ + 1],
                 room_with_most_devices)

\* lines 178-324: the TadoXData built from the fetched payloads
Normalize(presence, rooms_data, rooms_info, other_devices) ==
    LET withRooms == ProcessRooms(rooms_data, RoomDevicesMap(rooms_info, EmptyMap),
                                  NewData(presence))
        most == RoomWithMostDevices(withRooms.rooms.order, withRooms.rooms.at, 0, 0)
    IN  ProcessOtherDevices(other_devices, withRooms, most)

\* a read of lines 200-242 raised while a room was built
NormalizeRaised(data) == \E r \in DOMAIN data.rooms.at : data.rooms.at[r].raised

\* SpecNorm: the normalization applied to the payloads drawn by NormInit
NormalizeStep ==
    /\ ~normOut.built
    /\ normOut' = Normalize("HOME", normIn.rooms_data, normIn.rooms, normIn.otherDevices)
    /\ UNCHANGED <<normIn, apiVars, pollVars, syncVars, hassVars>>

\* ------------------------------------------------------- PollingCoordinator

\* the locals of a cycle: the presence and room list fetched, the mobile
\* devices fetched by the geofencing step (if it got them), the presence
\* values pushed, whether the geofencing step caught an exception, whether
\* the normalization completed, the calls of _auto_sync_temperature_offsets,
\* the exception of the cycle's body, the message and the class of the
\* exception it raised
NoCycle == [presence |-> "", rooms_data |-> <<>>, mobileFetched |-> FALSE,
            mobile_devices |-> <<>>, pushes |-> <<>>, geoError |-> FALSE, normalized |-> FALSE, syncRuns |-> 0,
            err |-> "none", raised |-> "none", exception |-> "none"]


\* how a call of the API client can fail: TadoXApiError, TadoXAuthError, or
\* an exception that is neither (a timeout, a payload that is no JSON)
FetchErrors == {"ApiError", "AuthError", "Other"}

Presences == {"HOME", "AWAY", ""}

\* the payloads the poll cycle is answered with
PollRoomsData == {<<>>, <<[id |-> 1]>>, <<[id |-> 1], [id |-> 2]>>}

PollPlaces ==
    {[v \in ValveSerials |-> IF v = "V1" THEN 1 ELSE 0],
     [v \in ValveSerials |-> IF v = "V1" THEN 1 ELSE 2]}

PollOthers ==
    {<<>>,
     <<[serialNumber |-> "T1", type |-> "TR04", roomId |-> 0]>>,
     <<[serialNumber |-> "T1", type |-> "IB02", roomId |-> 2]>>}

\* "rooms": null makes line 189 raise TypeError
PollRoomsDevices ==
    [rooms : {RoomsInfo(p) : p \in PollPlaces}, otherDevices : PollOthers,
     roomsNull : {FALSE}]
    \cup {[rooms |-> <<>>, otherDevices |-> <<>>, roomsNull |-> TRUE]}

MobilePayloads ==
    SeqsUpTo([geoTrackingEnabled : BOOLEAN, location : {"home", "away"}]
                 \cup {[geoTrackingEnabled |-> TRUE, location |-> "none"]},
             MaxMobile)

\* lines 332-338: the exception of the cycle, as the UpdateFailed message
UpdateFailedKind(err) ==
    IF err = "AuthError" THEN "Authentication error"
    ELSE IF err = "ApiError" THEN "API error"
    ELSE "Unexpected error"

\* lines 330-338: what _async_update_data ends with, given the exception of
\* its body (if any) and the TadoXData built so far
UpdateDataReturnsPartial(err, built) ==
    [raised |-> "none", exception |-> "none", data |-> built]

UpdateData(err, built) ==
    IF err = "none"
    THEN [raised |-> "none", exception |-> "none", data |-> built]
    ELSE [raised |-> UpdateFailedKind(err), exception |-> "UpdateFailed", data |-> NoData]

\* line 178: the TadoXData object cycle c builds is a new object
DataObjectReused(c) == IF coordData.built THEN coordData.gen ELSE c

DataObject(c) == c

\* lines 178-324 write to the object the cycle builds: what the published
\* object holds after them
AfterWrites(published, built) ==
    IF published.built /\ built.built /\ built.gen = published.gen
    THEN built ELSE published

\* the cycle ends: DataUpdateCoordinator stores the returned data, or records
\* the failed refresh and keeps its data
EndCycleAfter(err, built, normalized, syncRuns) ==
    LET res == UpdateData(err, built)
    IN  /\ pollPc' = "idle"
        /\ lastUpdateSuccess' = (res.raised = "none")
        /\ coordData' = IF res.raised = "none" THEN res.data
                        ELSE AfterWrites(coordData, built)
        /\ cyc' = [cyc EXCEPT !.err = err, !.raised = res.raised,
                              !.exception = res.exception,
                              !.normalized = normalized, !.syncRuns = syncRuns]

\* the cycle ends before the normalization has completed
EndCycle(err, built) == EndCycleAfter(err, built, FALSE, 0)

\* the interval timer or a refresh request starts _async_update_data, which
\* awaits get_home_state (line 166)
PollStart ==
    /\ pollPc = "idle"
    /\ cycles < MaxCycles
    /\ cycles' = cycles + 1
    /\ pollPc' = "home_state"
    /\ cyc' = NoCycle
    /\ dataAtStart' = coordData
    /\ UNCHANGED <<config, coordData, lastUpdateSuccess, entry, apiVars, normVars, syncVars, hassVars>>

\* get_home_state answers (lines 166-171)
HomeStateResponse(err, presence) ==
    /\ pollPc = "home_state"
    /\ IF err # "none"
       THEN EndCycle(err, NoData)
       ELSE /\ cyc' = [cyc EXCEPT !.presence = presence]
            /\ pollPc' = IF config.geofencing_enabled THEN "geo_mobile" ELSE "rooms"
            /\ UNCHANGED <<coordData, lastUpdateSuccess>>
    /\ UNCHANGED <<config, dataAtStart, cycles, entry, apiVars, normVars, syncVars, hassVars>>

\* lines 141-146: the names of the tracked mobile devices that are at home
RECURSIVE DevicesHome(_)
DevicesHome(mobile_devices) ==
    IF mobile_devices = <<>> THEN 0
    ELSE LET device == Head(mobile_devices)
         IN  (IF device.geoTrackingEnabled /\ device.location = "home" THEN 1 ELSE 0)
                 + DevicesHome(Tail(mobile_devices))

\* lines 149-156: the presence async_geofencing_check pushes ("": none)
GeofencingPushNoModeCheck(devices_home, presence) ==
    IF devices_home > 0 THEN "HOME" ELSE "AWAY"

GeofencingPush(devices_home, presence) ==
    IF devices_home > 0 /\ presence = "AWAY" THEN "HOME"
    ELSE IF devices_home = 0 /\ presence = "HOME" THEN "AWAY"
    ELSE ""

\* lines 158-160: `except Exception` catches what a call of the geofencing
\* step raised, logs it and returns
GeofencingCatchesOnlyApiError(err) == err = "ApiError"

GeofencingCatches(err) == TRUE

\* async_geofencing_check: get_mobile_devices answers (lines 140-160)
MobileDevicesResponse(err, mobile_devices) ==
    /\ pollPc = "geo_mobile"
    /\ LET push == GeofencingPush(DevicesHome(mobile_devices), cyc.presence)
       IN  IF err # "none" /\ ~GeofencingCatches(err)
           THEN EndCycle(err, NoData)
           ELSE /\ UNCHANGED <<coordData, lastUpdateSuccess>>
                /\ IF err # "none"
                   THEN /\ cyc' = [cyc EXCEPT !.geoError = TRUE]
                        /\ pollPc' = "rooms"
                   ELSE IF push # ""
                   THEN /\ cyc' = [cyc EXCEPT !.pushes = Append(@, push),
                                              !.mobileFetched = TRUE,
                                              !.mobile_devices = mobile_devices]
                        /\ pollPc' = "geo_set"
                   ELSE /\ pollPc' = "rooms"
                        /\ cyc' = [cyc EXCEPT !.mobileFetched = TRUE,
                                              !.mobile_devices = mobile_devices]
    /\ UNCHANGED <<config, dataAtStart, cycles,
                   entry, apiVars, normVars, syncVars, hassVars>>

\* async_geofencing_check: set_presence answers (lines 151-160)
SetPresenceResponse(err) ==
    /\ pollPc = "geo_set"
    /\ IF err # "none" /\ ~GeofencingCatches(err)
       THEN EndCycle(err, NoData)
       ELSE /\ cyc' = [cyc EXCEPT !.geoError = (err # "none")]
            /\ pollPc' = "rooms"
            /\ UNCHANGED <<coordData, lastUpdateSuccess>>
    /\ UNCHANGED <<config, dataAtStart, cycles,
                   entry, apiVars, normVars, syncVars, hassVars>>

\* get_rooms answers (line 173)
RoomsResponse(err, rooms_data) ==
    /\ pollPc = "rooms"
    /\ IF err # "none"
       THEN EndCycle(err, NewData(cyc.presence))
       ELSE /\ cyc' = [cyc EXCEPT !.rooms_data = rooms_data]
            /\ pollPc' = "rooms_devices"
            /\ UNCHANGED <<coordData, lastUpdateSuccess>>
    /\ UNCHANGED <<config, dataAtStart, cycles, entry, apiVars, normVars, syncVars, hassVars>>

\* line 327: self.offset_mappings is read when auto_offset_sync is set; no
\* code assigns that attribute (__init__ stores room_configs), so the read
\* raises AttributeError
AutoSyncGuard ==
    IF config.auto_offset_sync THEN "AttributeError" ELSE "skip"

\* lines 327-328: the calls of _auto_sync_temperature_offsets the guard leads to
AutoSyncRuns == IF AutoSyncGuard = "run" THEN 1 ELSE 0

\* lines 167, 178-182: the presence TadoXData is constructed with is the one
\* read from the home state, c the locals of the cycle
SnapshotPresencePushed(c) == IF c.pushes # <<>> THEN c.pushes[1] ELSE c.presence

SnapshotPresence(c) == c.presence

\* get_rooms_and_devices answers (line 176); the rest of the cycle runs
\* without suspending: the normalization, the auto-sync guard, the return
RoomsDevicesResponse(err, rd) ==
    /\ pollPc = "rooms_devices"
    /\ IF err # "none"
       THEN EndCycle(err, NewData(cyc.presence))
       ELSE IF rd.roomsNull
       THEN EndCycle("Other", NewData(cyc.presence))
       ELSE LET built == [Normalize(SnapshotPresence(cyc), cyc.rooms_data, rd.rooms,
                                    rd.otherDevices) EXCEPT !.gen = DataObject(cycles)]
            IN  IF AutoSyncGuard = "AttributeError" \/ NormalizeRaised(built)
                THEN EndCycleAfter("Other", built, TRUE, AutoSyncRuns)
                ELSE EndCycleAfter("none", built, TRUE, AutoSyncRuns)
    /\ UNCHANGED <<config, dataAtStart, cycles, entry, apiVars, normVars, syncVars, hassVars>>

\* ------------------------------------------------------ OffsetSyncController

\* A finite float is the record [k |-> "num", v, e]: the IEEE 754 double of
\* value (v * 2^ErrBits + e) / (100 * 2^ErrBits), v the hundredths of its
\* decimal reading and e what it differs from that decimal by.
ErrBits == 60

MantissaBits == 52

RECURSIVE Pow2(_)
Pow2(n) == IF n = 0 THEN 1 ELSE 2 * Pow2(n - 1)

\* 2^p modulo 100
RECURSIVE PowMod2(_)
PowMod2(p) == IF p = 0 THEN 1 ELSE (2 * PowMod2(p - 1)) % 100

\* v scaled by 2^-x
Scale(v, x) == IF x >= 0 THEN v \div Pow2(x) ELSE v * Pow2(0 - x)

\* floor(log2) of a positive v/100
Log2Floor(v) == CHOOSE x \in -7..7 : Scale(v, x) \in 100..199

\* v/100 is the power of two 2^x
OnPower(v, x) == IF x >= 0 THEN v = 100 * Pow2(x) ELSE v * Pow2(0 - x) = 100

\* the binary exponent of a positive v/100 + e, v/100 being in [2^x, 2^(x+1))
ExponentAt(v, e, x) == IF OnPower(v, x) /\ e < 0 THEN x - 1 ELSE x

Exponent(v, e) == ExponentAt(v, e, Log2Floor(v))

\* base + e modulo G, in 0..G-1
ResidueMod(base, e, G) == (((base + e) % G) + G) % G

\* what v/100 + e exceeds the next lower multiple of 2^-p by
Residue(v, e, p) ==
    ResidueMod(Pow2(ErrBits - p) * ((v * PowMod2(p)) % 100), e, 100 * Pow2(ErrBits - p))

\* v/100 + e rounded to the grid of spacing G, r and r2 being what it exceeds
\* the multiples of G and of 2G by: to the nearest, a tie to the even multiple
RoundBy(v, e, G, r, r2) ==
    IF 2 * r < G \/ (2 * r = G /\ r2 = r)
    THEN [k |-> "num", v |-> v, e |-> e - r]
    ELSE [k |-> "num", v |-> v, e |-> e - r + G]

\* v/100 + e rounded to the doubles of spacing 2^-p
RoundOnGrid(v, e, p) ==
    RoundBy(v, e, 100 * Pow2(ErrBits - p), Residue(v, e, p), Residue(v, e, p - 1))

\* the double nearest to a positive v/100 + e, a tie to the even mantissa
RoundMagnitude(v, e) == RoundOnGrid(v, e, MantissaBits - Exponent(v, e))

Negate(x) == [k |-> "num", v |-> 0 - x.v, e |-> 0 - x.e]

\* the double nearest to v/100 + e; a difference of two doubles that read as
\* the same decimal is a double itself
RoundToDouble(v, e) ==
    IF v = 0 THEN [k |-> "num", v |-> 0, e |-> e]
    ELSE IF v < 0 THEN Negate(RoundMagnitude(0 - v, 0 - e))
    ELSE RoundMagnitude(v, e)

\* the float a decimal literal, a JSON number or float(str) gives
Num(v) == RoundToDouble(v, 0)

\* float(state) (line 409): the strings "nan", "inf" and "-inf" parse
ParseFloat(state) ==
    IF state.kind \in {"nan", "inf", "ninf"} THEN [k |-> state.kind, v |-> 0, e |-> 0]
    ELSE Num(state.v)

\* a - b for a finite b
FSub(a, b) == IF a.k = "num" THEN RoundToDouble(a.v - b.v, a.e - b.e) ELSE a

\* a < b as Python compares floats: every comparison with NaN is false
FLess(a, b) ==
    /\ a.k # "nan" /\ b.k # "nan"
    /\ \/ a.k = "ninf" /\ b.k # "ninf"
       \/ b.k = "inf" /\ a.k # "inf"
       \/ /\ a.k = "num" /\ b.k = "num"
          /\ a.v < b.v \/ (a.v = b.v /\ a.e < b.e)

\* min(a, b) and max(a, b) of Python: the first argument unless the second
\* is strictly less (greater)
PyMin(a, b) == IF FLess(b, a) THEN b ELSE a

PyMax(a, b) == IF FLess(a, b) THEN b ELSE a

\* round(x, 1): the float of the tenth nearest to the exact value of x, an
\* exact tie to the even tenth
NearestTenth(v, e) ==
    LET lo == (v \div 10) * 10
        r == v - lo
    IN  IF r < 5 THEN lo
        ELSE IF r > 5 THEN lo + 10
        ELSE IF e > 0 THEN lo + 10
        ELSE IF e < 0 THEN lo
        ELSE IF (lo \div 10) % 2 = 0 THEN lo ELSE lo + 10

Round1(x) ==
    IF x.k # "num" THEN x
    ELSE IF x.v < 0 THEN Num(0 - NearestTenth(0 - x.v, 0 - x.e))
    ELSE Num(NearestTenth(x.v, x.e))

\* line 419: new_offset = max(-3.0, min(3.0, calculated_offset))
ClampOffsetManualRange(calculated_offset) ==
    PyMax(Num(-990), PyMin(Num(990), calculated_offset))

ClampOffset(calculated_offset) ==
    PyMax(Num(ClampLow), PyMin(Num(ClampHigh), calculated_offset))

\* abs(x) of a finite float
FAbs(x) == IF x.v < 0 \/ (x.v = 0 /\ x.e < 0) THEN Negate(x) ELSE x

\* lines 422-435: the mapping's entry of offsets_to_update, or the skip
QueueIfBeyond(device_serial, new_offset, current_offset, offset_hysteresis) ==
    IF FLess(offset_hysteresis, FAbs(FSub(new_offset, current_offset)))
    THEN [queued |-> TRUE, why |-> "updating", serial |-> device_serial,
          offset |-> new_offset]
    ELSE [queued |-> FALSE, why |-> "within hysteresis"]

\* lines 416-435
SyncComputed(device_serial, room_temp, device_data, offset_hysteresis) ==
    QueueIfBeyond(device_serial,
                  ClampOffset(Round1(FSub(room_temp, Num(device_data.temperature_measured)))),
                  Num(device_data.temperature_offset),
                  Num(offset_hysteresis))

\* lines 394-435, the device being in the snapshot
SyncDevice(device_serial, state, device_data, offset_hysteresis) ==
    IF ~device_data.measured
    THEN [queued |-> FALSE, why |-> "no measurement"]
    ELSE IF state.kind \in {"absent", "unknown", "unavailable"}
    THEN [queued |-> FALSE, why |-> "sensor unavailable"]
    ELSE IF state.kind = "text"
    THEN [queued |-> FALSE, why |-> "invalid temperature"]
    ELSE SyncComputed(device_serial, ParseFloat(state), device_data, offset_hysteresis)

\* lines 353-435, one room_config: the serial and offset it queues, or why
\* it queues nothing
SyncMapping(room_config, devices, offset_hysteresis) ==
    IF room_config.serial = ""
    THEN [queued |-> FALSE, why |-> "unresolved"]
    ELSE IF room_config.serial \notin DOMAIN devices
    THEN [queued |-> FALSE, why |-> "not in data"]
    ELSE SyncDevice(room_config.serial, room_config.sensor,
                    devices[room_config.serial], offset_hysteresis)

\* lines 353-435: what the loop logs, one entry for each room_config
RECURSIVE SyncLogOf(_, _, _)
SyncLogOf(room_configs, devices, offset_hysteresis) ==
    IF room_configs = <<>> THEN <<>>
    ELSE <<SyncMapping(Head(room_configs), devices, offset_hysteresis).why>>
             \o SyncLogOf(Tail(room_configs), devices, offset_hysteresis)

\* line 424: offsets_to_update[device_serial] = new_offset
PutIfQueuedKeepsFirst(offsets_to_update, m) ==
    IF m.queued /\ m.serial \notin DOMAIN offsets_to_update
    THEN MapPut(offsets_to_update, m.serial, m.offset) ELSE offsets_to_update

PutIfQueued(offsets_to_update, m) ==
    IF m.queued THEN MapPut(offsets_to_update, m.serial, m.offset) ELSE offsets_to_update

\* lines 348-435: offsets_to_update after the loop over room_configs
RECURSIVE OffsetsToUpdate(_, _, _, _)
OffsetsToUpdate(room_configs, devices, offset_hysteresis, offsets_to_update) ==
    IF room_configs = <<>> THEN offsets_to_update
    ELSE OffsetsToUpdate(Tail(room_configs), devices, offset_hysteresis,
             PutIfQueued(offsets_to_update,
                         SyncMapping(Head(room_configs), devices, offset_hysteresis)))

\* _auto_sync_temperature_offsets up to its await (lines 348-441)
AutoSyncStart ==
    /\ syncPc = "idle"
    /\ submitted' = OffsetsToUpdate(syncIn.room_configs, syncIn.devices,
                                    syncIn.offset_hysteresis, EmptyMap)
    /\ syncPc' = IF submitted' = EmptyMap THEN "done" ELSE "writing"
    /\ syncOut' = IF submitted' = EmptyMap THEN "nothing" ELSE "none"
    /\ syncLog' = SyncLogOf(syncIn.room_configs, syncIn.devices, syncIn.offset_hysteresis)
    /\ UNCHANGED <<syncIn, apiVars, normVars, pollVars, hassVars>>

\* set_multiple_device_temperature_offsets returns its result mapping or
\* raises; either way the method logs and returns (lines 441-455)
AutoSyncWritten(raised, failed) ==
    /\ syncPc = "writing"
    /\ syncPc' = "done"
    /\ syncOut' = IF raised THEN "logged exception"
                  ELSE IF failed = {} THEN "all written"
                  ELSE "logged failures"
    /\ UNCHANGED <<syncIn, submitted, syncLog, apiVars, normVars, pollVars, hassVars>>

\* ------------------------------------------------------------- environment

SetHomeId(h) ==
    /\ ~Busy
    /\ homeId # h
    /\ homeId' = h
    /\ UNCHANGED <<accessToken, refreshToken, tokenExpiry, now, issued,
                   task, call, callOut, results>>
    /\ UNCHANGED <<auth, otherVars>>

Tick ==
    /\ ~Busy
    /\ now < MaxNow
    /\ now' = now + TickSeconds
    /\ UNCHANGED <<accessToken, refreshToken, tokenExpiry, homeId, issued,
                   task, call, callOut, results>>
    /\ UNCHANGED <<auth, otherVars>>

\* the client as constructed by async_setup_entry from the persisted entry
ApiInit ==
    /\ accessToken \in {0, 1}
    /\ refreshToken \in {0, 1}
    /\ tokenExpiry \in {NoExpiry,
                        [has |-> TRUE, t |-> 30, aware |-> TRUE],
                        [has |-> TRUE, t |-> 600, aware |-> TRUE],
                        [has |-> TRUE, t |-> 600 + TzOffset, aware |-> FALSE]}
    /\ homeId = 0
    /\ now = 0
    /\ issued = 1
    /\ task = [s \in Serials |-> IdleTask]
    /\ call = NoCall
    /\ callOut = "none"
    /\ results = NoResults
    /\ auth = IdleAuth
    /\ entryData = issued
    /\ switchLog = <<>>

NormOff ==
    /\ normIn = [rooms_data |-> <<>>, rooms |-> <<>>, otherDevices |-> <<>>]
    /\ normOut = NoData

PollOff ==
    /\ config = [geofencing_enabled |-> FALSE, auto_offset_sync |-> FALSE,
                 room_configs |-> 0]
    /\ pollPc = "idle"
    /\ cyc = NoCycle
    /\ coordData = NoData
    /\ lastUpdateSuccess = TRUE
    /\ dataAtStart = NoData
    /\ cycles = 0
    /\ entry = IdleEntry

SyncOff ==
    /\ syncIn = [devices |-> EmptyMap, room_configs |-> <<>>, offset_hysteresis |-> 0]
    /\ syncPc = "idle"
    /\ submitted = EmptyMap
    /\ syncOut = "none"
    /\ syncLog = <<>>

Init == ApiInit /\ NormOff /\ PollOff /\ SyncOff

Next ==
    \/ \E op \in Ops : CallOp(op)
    \/ OpReturn
    \/ \E keys \in SUBSET Serials : CallBatch(keys)
    \/ BatchReturn
    \/ \E s \in Serials, r \in RefreshAnswers : RefreshResponse(s, r)
    \/ \E s \in Serials, st \in ApiAnswers : ApiResponse(s, st)
    \/ \E s \in Serials, st \in ApiAnswers : RetryResponse(s, st)
    \/ \E h \in {0, 1} : SetHomeId(h)
    \/ Tick
    \/ CallStartDeviceAuth
    \/ \E ans \in DeviceAuthAnswers : DeviceAuthResponse(ans)
    \/ CallPollForToken(TickSeconds, PollTimeout)
    \/ \E ans \in TokenAnswers : PollResponse(ans)
    \/ PollWake

Spec == Init /\ [][Next]_vars

\* the device authorization flow alone, polled at every interval of the family
AuthNext ==
    \/ CallStartDeviceAuth
    \/ \E ans \in DeviceAuthAnswers : DeviceAuthResponse(ans)
    \/ \E interval \in PollIntervals : CallPollForToken(interval, PollTimeout)
    \/ \E ans \in TokenAnswers : PollResponse(ans)
    \/ PollWake
    \/ Tick

SpecAuth == Init /\ [][AuthNext]_vars

\* every POST is answered or raises, every sleep ends
FairSpecAuth ==
    /\ SpecAuth
    /\ WF_vars(\E ans \in TokenAnswers : PollResponse(ans))
    /\ WF_vars(PollWake)

\* the API client left as constructed, with no call made
ApiOff ==
    /\ accessToken = 1
    /\ refreshToken = 1
    /\ tokenExpiry = NoExpiry
    /\ homeId = 1
    /\ now = 0
    /\ issued = 1
    /\ task = [s \in Serials |-> IdleTask]
    /\ call = NoCall
    /\ callOut = "none"
    /\ results = NoResults
    /\ auth = IdleAuth
    /\ entryData = issued
    /\ switchLog = <<>>

\* every payload of the family: a room list, the valves of rooms 1 and 2,
\* the other devices
NormInit ==
    /\ ApiOff
    /\ PollOff
    /\ SyncOff
    /\ normOut = NoData
    /\ \E rooms_data \in SeqsUpTo(RoomPayloads, MaxRooms),
          place \in [ValveSerials -> {0, 1, 2}],
          n \in 0..MaxOther :
            \E other \in OtherPayloads(n) :
                normIn = [rooms_data |-> rooms_data, rooms |-> RoomsInfo(place),
                          otherDevices |-> other]

NormNext == NormalizeStep

\* the coordinator as constructed by async_setup_entry, with any options
PollInit ==
    /\ ApiOff
    /\ NormOff
    /\ SyncOff
    /\ config \in [geofencing_enabled : BOOLEAN, auto_offset_sync : BOOLEAN,
                    room_configs : {0, 1}]
    /\ pollPc = "idle"
    /\ cyc = NoCycle
    /\ coordData = NoData
    /\ lastUpdateSuccess = TRUE
    /\ dataAtStart = NoData
    /\ cycles = 0
    /\ entry = IdleEntry

PollNext ==
    \/ PollStart
    \/ \E err \in FetchErrors \cup {"none"}, presence \in Presences :
          HomeStateResponse(err, presence)
    \/ \E err \in FetchErrors \cup {"none"}, mobile_devices \in MobilePayloads :
          MobileDevicesResponse(err, mobile_devices)
    \/ \E err \in FetchErrors \cup {"none"} : SetPresenceResponse(err)
    \/ \E err \in FetchErrors \cup {"none"}, rooms_data \in PollRoomsData :
          RoomsResponse(err, rooms_data)
    \/ \E err \in FetchErrors \cup {"none"}, rd \in PollRoomsDevices :
          RoomsDevicesResponse(err, rd)

SpecPoll == PollInit /\ [][PollNext]_vars

\* the sensor states, the devices of the snapshot and the mappings of the family
SensorStates ==
    [kind : {"absent", "unknown", "unavailable", "text", "nan", "inf", "ninf"}, v : {0}]
    \cup [kind : {"num"}, v : {1500, 2130, 2132, 2158, 3000}]

SyncDevices ==
    {[sn \in {"V1", "V2"} |->
        [measured |-> (sn = "V2" \/ m), temperature_measured |-> IF sn = "V1" THEN 2000 ELSE 1980,
         temperature_offset |-> IF sn = "V1" \/ o = 100 THEN o ELSE 0 - o]] :
        m \in BOOLEAN, o \in {100, 300}}

RoomConfigs ==
    [serial : {"V1"}, sensor : SensorStates]
    \cup [serial : {"V2"}, sensor : [kind : {"num"}, v : {1500, 2130}]]
    \cup [serial : {"", "V9"}, sensor : {[kind |-> "num", v |-> 2132]}]

SyncInit ==
    /\ ApiOff
    /\ NormOff
    /\ PollOff
    /\ syncIn \in [devices : SyncDevices,
                    room_configs : SeqsUpTo(RoomConfigs, MaxMappings),
                    offset_hysteresis : {30, 60}]
    /\ syncPc = "idle"
    /\ submitted = EmptyMap
    /\ syncOut = "none"
    /\ syncLog = <<>>

SyncNext ==
    \/ AutoSyncStart
    \/ \E raised \in BOOLEAN, failed \in SUBSET {"V1", "V2"} :
          AutoSyncWritten(raised, failed \cap DOMAIN submitted)

SpecSync == SyncInit /\ [][SyncNext]_vars

\* the coordinator as constructed (its __init__ sets the client's home id),
\* its batch-offset entry point called with any mapping
EntryInit == ApiOff /\ NormOff /\ PollOff /\ SyncOff

EntryNext ==
    \/ \E keys \in SUBSET Serials : BatchUpdateCall(keys)
    \/ \E s \in Serials, r \in RefreshAnswers : RefreshResponse(s, r)
    \/ \E s \in Serials, st \in ApiAnswers : ApiResponse(s, st)
    \/ \E s \in Serials, st \in ApiAnswers : RetryResponse(s, st)
    \/ BatchReturn
    \/ BatchUpdateRefresh
    \/ BatchUpdateReturn
    \/ Tick

SpecEntry == EntryInit /\ [][EntryNext]_vars

SpecNorm == NormInit /\ [][NormNext]_vars

\* the switch entities of rooms 1 and 2 and of the valves V1 and V2
SwitchNext ==
    \/ \E room_id \in {1, 2}, on \in BOOLEAN, err \in FetchErrors \cup {"none"} :
          BoostModeTurn(room_id, on, err)
    \/ \E serial \in {"V1", "V2"}, on \in BOOLEAN, err \in FetchErrors \cup {"none"} :
          ChildLockTurn(serial, on, err)

\* no call of a switch handler yet
SwitchInit == ApiOff /\ NormOff /\ PollOff /\ SyncOff

SpecSwitch == SwitchInit /\ [][SwitchNext]_vars

\* the nested objects of a room state: the key is missing, its value is
\* null, or it is an object, empty, with null members or complete
Missing == [kind |-> "missing"]

SensorDataOptions ==
    {Missing, Null, Obj(EmptyMap),
     Obj([insideTemperature |-> Null, humidity |-> Null]),
     Obj([insideTemperature |-> Obj([value |-> JNum(215)]),
          humidity |-> Obj([percentage |-> JNum(40)])])}

SettingOptions ==
    {Missing, Null, Obj([power |-> JStr("ON"), temperature |-> Null]),
     Obj([power |-> JStr("ON"), temperature |-> Obj([value |-> JNum(210)])])}

ManualControlOptions ==
    {Missing, Null, Obj([type |-> JStr("TIMER"), remainingTimeInSeconds |-> JNum(900)])}

NextScheduleOptions ==
    {Missing, Null, Obj([start |-> JStr("06:00"), setting |-> Null]),
     Obj([start |-> JStr("06:00"),
          setting |-> Obj([temperature |-> Obj([value |-> JNum(180)])])])}

HeatingPowerOptions == {Missing, Null, Obj([percentage |-> JNum(25)])}

ConnectionOptions == {Missing, Null, Obj([state |-> JStr("CONNECTED")])}

\* the room-state payload of room 1 with the nested objects f, a missing one
\* being no key of the payload
RoomStatePayload(f) ==
    [k \in {"id"} \cup {key \in DOMAIN f : f[key] # Missing} |->
        IF k = "id" THEN 1 ELSE f[k]]

\* one room state with every combination of its nested objects
RoomInit ==
    /\ ApiOff
    /\ PollOff
    /\ SyncOff
    /\ normOut = NoData
    /\ \E a \in SensorDataOptions, b \in SettingOptions, c \in ManualControlOptions,
          d \in NextScheduleOptions, e \in HeatingPowerOptions, g \in ConnectionOptions :
            normIn = [rooms_data |->
                         <<RoomStatePayload([sensorDataPoints |-> a, setting |-> b,
                                             manualControlTermination |-> c,
                                             nextScheduleChange |-> d,
                                             heatingPower |-> e, connection |-> g])>>,
                      rooms |-> RoomsInfo([v \in ValveSerials |-> 1]),
                      otherDevices |-> <<>>]

SpecRoom == RoomInit /\ [][NormNext]_vars

\* ======================================================= the API client

Succeeded(t) == t.out \in {"json", "null"}

RefreshInFlight == {s \in Serials : task[s].pc \in {"evRefresh", "r401"}}

\* C1: a request whose first answer is 401 calls refresh exactly once for it;
\* once that refresh has succeeded it sends exactly one retry, which carries
\* the access token that refresh stored (a failed refresh ends the request
\* with AuthError and no retry); a retry answered with 401 ends the request
\* with ApiError, with no second refresh and no third send.
C1_OneRefreshOneRetryOn401 ==
    \A s \in Serials :
        LET t == task[s] IN
        t.st1 = "401" =>
            /\ t.calls401 = 1
            /\ t.posts401 <= 1
            /\ t.sends <= 2
            /\ t.pc \in {"r401", "wait2", "done"}
            /\ t.pc = "r401" => t.sends = 1 /\ t.posts401 = 1
            /\ t.tok401 # 0 =>
                  /\ t.sends = 2
                  /\ t.tok2 = t.tok401
                  /\ t.tok2 # t.tok1
            /\ t.tok401 = 0 /\ t.pc = "done" => t.sends = 1 /\ t.out = "AuthError"
            /\ t.st2 = "401" =>
                  /\ t.pc = "done"
                  /\ t.out = "ApiError"
                  /\ t.sends = 2

C1_Witness ==
    \E s \in Serials :
        /\ task[s].st1 = "401"
        /\ task[s].st2 = "401"
        /\ task[s].out = "ApiError"
        /\ task[s].tok2 = task[s].tok401

\* C2: a request called with a credential whose expiry is at most now+60s
\* calls refresh exactly once in ensure_valid_token (when an access token is
\* held), and whenever it has sent an API request, that refresh came first
\* and the request carried the access token the refresh stored.
C2_RefreshBeforeSendNearExpiry ==
    \A s \in Serials :
        LET t == task[s] IN
        t.near /\ t.pc # "idle" =>
            /\ t.evCalls <= 1
            /\ call.access # 0 => t.evCalls = 1
            /\ t.sends >= 1 =>
                  /\ t.evCalls = 1
                  /\ t.evPosts = 1
                  /\ t.evTok # 0
                  /\ t.tok1 = t.evTok
                  /\ t.tok1 # call.access

C2_Witness ==
    \E s \in Serials :
        /\ task[s].near
        /\ task[s].sends = 1
        /\ task[s].evPosts = 1
        /\ task[s].tok1 = task[s].evTok
        /\ task[s].out = "json"

\* C3: at most one refresh exchange is in flight at any time, also while
\* several requests of one batch run concurrently.
C3_AtMostOneRefreshInFlight == Cardinality(RefreshInFlight) <= 1

\* C4: the mapping a batch call returns has exactly the serials of the input
\* as its keys, an entry is "success" exactly when its own request succeeded,
\* and every entry's request ran to its own end, whatever its siblings did.
C4_PerEntryResults ==
    call.kind = "batch" /\ callOut = "returned" =>
        \A s \in Serials :
            /\ results[s] # "absent" <=> s \in call.keys
            /\ s \in call.keys =>
                  /\ task[s].pc = "done"
                  /\ results[s] = "success" <=> Succeeded(task[s])
                  /\ results[s] = "error" <=> ~Succeeded(task[s])
                  /\ Succeeded(task[s]) <=>
                        \/ task[s].st1 \in {"200", "200empty", "204"}
                        \/ task[s].st2 \in {"200", "200empty"}

C4_Witness ==
    /\ call.kind = "batch"
    /\ callOut = "returned"
    /\ call.keys = {"A", "B"}
    /\ results["A"] = "success"
    /\ results["B"] = "error"
    /\ task["B"].out = "ApiError"

\* C5: a batch call never raises: in every client state it returns a mapping.
C5_BatchNeverRaises ==
    call.kind = "batch" => callOut \in {"pending", "returned"}

\* C6: a home-scoped operation called while the home id is unset raises
\* ApiError without sending any request or refresh, and leaves the
\* credential as it was.
C6_UnsetHomeFailsBeforeNetwork ==
    call.kind = "op" /\ call.op \in HomeOps /\ call.home = 0 =>
        /\ callOut = "ApiError"
        /\ \A s \in Serials : task[s] = IdleTask
        /\ accessToken = call.access
        /\ refreshToken = call.refresh
        /\ tokenExpiry = call.expiry

C6_Witness ==
    /\ call.kind = "op"
    /\ call.op = "set_device_temperature_offset"
    /\ call.home = 0
    /\ callOut = "ApiError"
    /\ accessToken # 0

\* C17: a request whose first answer has a status other than 200, 204 or 401
\* ends with ApiError at once: it has sent one request, sends no retry and
\* calls no refresh after that answer.
C17_OtherStatusFailsAtOnce ==
    \A s \in Serials :
        LET t == task[s] IN
        t.st1 \notin {"", "200", "200empty", "204", "401", "neterr"} =>
            /\ t.pc = "done"
            /\ t.out = "ApiError"
            /\ t.sends = 1
            /\ t.calls401 = 0
            /\ t.posts401 = 0
            /\ t.st2 = ""

C17_Witness ==
    \E s \in Serials :
        /\ task[s].st1 = "201"
        /\ task[s].out = "ApiError"
        /\ task[s].sends = 1

\* the status of the response a request ended with
LastStatus(t) == IF t.st2 # "" THEN t.st2 ELSE t.st1

\* C18: a request whose last response, the first one or the one to the retry
\* after a 401, has status 204 or zero content length returns null.
C18_NullOn204OrEmpty ==
    \A s \in Serials :
        LET t == task[s] IN
        t.pc = "done" /\ LastStatus(t) \in {"204", "200empty"} => t.out = "null"

\* C19: a refresh called while no refresh token is held fails with AuthError
\* without sending a request; a refresh the token endpoint answers with a
\* status other than 200, or whose exchange hits a network error, fails with
\* AuthError.
C19_RefreshFailsWithAuthError ==
    \A s \in Serials :
        LET t == task[s] IN
        /\ call.refresh = 0 /\ t.evCalls + t.calls401 > 0 =>
              /\ t.evPosts + t.posts401 = 0
              /\ t.pc = "done"
              /\ t.out = "AuthError"
        /\ t.ans.status \notin {0, 200} =>
              /\ t.pc = "done"
              /\ t.out = "AuthError"
              /\ t.sends <= 1

C19_Witness ==
    \E s \in Serials :
        /\ task[s].st1 = "401"
        /\ task[s].ans.status = -1
        /\ task[s].out = "AuthError"

\* task s has just had its refresh answered with 200
RefreshSucceededFor(s) ==
    /\ task[s].pc \in {"evRefresh", "r401"}
    /\ task'[s].pc \in {"wait1", "wait2"}

\* C20: a successful refresh stores the access token the server returned, an
\* expiry of now(UTC) plus the server's expires_in (600 seconds when absent),
\* and the server's refresh token if it supplied one, the one held before
\* otherwise.
C20_RefreshStoresCredential ==
    [][\A s \in Serials :
          RefreshSucceededFor(s) =>
              LET r == task'[s].ans IN
              /\ r.status = 200
              /\ accessToken' = issued'
              /\ accessToken' # accessToken
              /\ tokenExpiry'.has /\ tokenExpiry'.aware
              /\ tokenExpiry'.t = now + (IF r.expiresIn = 0 THEN 600 ELSE r.expiresIn)
              /\ refreshToken' = IF r.newRefresh THEN issued' ELSE refreshToken]_vars

C20_Witness ==
    \E s \in Serials :
        /\ task[s].pc = "wait1"
        /\ task[s].ans = [status |-> 200, newRefresh |-> FALSE, expiresIn |-> 0]
        /\ accessToken = task[s].evTok
        /\ refreshToken = call.refresh
        /\ tokenExpiry = [has |-> TRUE, aware |-> TRUE, t |-> now + 600]

\* ==================================================== the normalization

RoomDeviceLists(d) == {d.rooms.at[r].devices : r \in DOMAIN d.rooms.at}

InList(dev, list) == \E i \in DOMAIN list : list[i] = dev

RoomsHolding(d, dev) == {r \in DOMAIN d.rooms.at : InList(dev, d.rooms.at[r].devices)}

\* every device of a room's list is the device the flat index holds under its serial
RoomDevicesIndexed(d) ==
    \A r \in DOMAIN d.rooms.at :
        \A i \in DOMAIN d.rooms.at[r].devices :
            LET dev == d.rooms.at[r].devices[i]
            IN  /\ dev.serial_number \in DOMAIN d.devices
                /\ d.devices[dev.serial_number] = dev

\* every indexed device with a room id is in the device list of that room
IndexedDevicesInTheirRoom(d) ==
    \A sn \in DOMAIN d.devices :
        LET dev == d.devices[sn]
        IN  dev.room_id # 0 =>
                /\ dev.room_id \in DOMAIN d.rooms.at
                /\ InList(dev, d.rooms.at[dev.room_id].devices)

\* C8: in every snapshot the normalization builds, every device of a room's
\* device list is in the flat index under its serial, as the same device, and
\* every device of the flat index that has a room id is in the device list of
\* that room.
C8_SnapshotConsistent ==
    normOut.built =>
        /\ RoomDevicesIndexed(normOut)
        /\ IndexedDevicesInTheirRoom(normOut)

\* C9: in every snapshot each device is either in exactly one room's device
\* list and not in other_devices, or in other_devices and in no room's list.
C9_RoomOrOther ==
    normOut.built =>
        \A sn \in DOMAIN normOut.devices :
            LET dev == normOut.devices[sn]
                inOther == InList(dev, normOut.other_devices)
                n == Cardinality(RoomsHolding(normOut, dev))
            IN  \/ n = 1 /\ ~inOther
                \/ n = 0 /\ inOther

\* ======================================================= the poll cycle

CycleEnded == pollPc = "idle" /\ cycles > 0

\* C7: a cycle in which a fetch or the normalization raised is reported as a
\* failed refresh and publishes nothing: coordinator.data is the snapshot
\* published before the cycle; and while a cycle runs, coordinator.data
\* stays that snapshot.
C7_FailedCycleKeepsSnapshot ==
    /\ pollPc # "idle" => coordData = dataAtStart
    /\ CycleEnded /\ cyc.err # "none" =>
          /\ ~lastUpdateSuccess
          /\ cyc.raised = UpdateFailedKind(cyc.err)
          /\ coordData = dataAtStart

C7_Witness ==
    /\ CycleEnded
    /\ cyc.err = "Other"
    /\ cyc.rooms_data # <<>>
    /\ ~lastUpdateSuccess
    /\ coordData.built
    /\ coordData.rooms.order = <<1, 2>>
    /\ coordData = dataAtStart

\* ================================================== the auto-sync controller

\* C10: every offset the controller passes to the batch write is a number in
\* [-3.0, +3.0], whatever the reference, the measurement and the current
\* offset are.
C10_SubmittedOffsetsClamped ==
    \A sn \in DOMAIN submitted :
        /\ submitted[sn].k = "num"
        /\ ClampLow <= submitted[sn].v
        /\ submitted[sn].v <= ClampHigh

\* reference 30.0, measured 20.0: raw 10.0 is written as 3.0
C10_Witness ==
    /\ syncPc = "writing"
    /\ Len(syncIn.room_configs) = 1
    /\ syncIn.room_configs[1] = [serial |-> "V1", sensor |-> [kind |-> "num", v |-> 3000]]
    /\ syncIn.devices["V1"].temperature_measured = 2000
    /\ syncIn.devices["V1"].temperature_offset = 100
    /\ submitted = ("V1" :> Num(300))

\* the offset the specification describes for a mapping, in hundredths:
\* round(reference - measured, 1) clamped to [-3.0, +3.0]
DesiredOffset(reference, measured) ==
    LET d == reference - measured
        a == IF d < 0 THEN 0 - d ELSE d
        lo == (a \div 10) * 10
        t == IF a - lo < 5 THEN lo
             ELSE IF a - lo > 5 THEN lo + 10
             ELSE IF (lo \div 10) % 2 = 0 THEN lo ELSE lo + 10
        rounded == IF d < 0 THEN 0 - t ELSE t
    IN  IF rounded < ClampLow THEN ClampLow
        ELSE IF rounded > ClampHigh THEN ClampHigh ELSE rounded

\* the mapping reaches the hysteresis test with a finite reference
Resolvable(room_config) ==
    /\ room_config.serial \in DOMAIN syncIn.devices
    /\ syncIn.devices[room_config.serial].measured
    /\ room_config.sensor.kind = "num"

BeyondHysteresis(room_config) ==
    LET device_data == syncIn.devices[room_config.serial]
        delta == DesiredOffset(room_config.sensor.v, device_data.temperature_measured)
                     - device_data.temperature_offset
    IN  (IF delta < 0 THEN 0 - delta ELSE delta) > syncIn.offset_hysteresis

\* C11: for each resolvable mapping the controller queues a write if and only
\* if |desiredOffset - currentOffset| is strictly greater than the hysteresis;
\* a delta equal to or below the hysteresis queues nothing.
C11_QueuedIffBeyondHysteresis ==
    syncPc # "idle" =>
        \A i \in DOMAIN syncIn.room_configs :
            Resolvable(syncIn.room_configs[i]) =>
                (syncLog[i] = "updating" <=> BeyondHysteresis(syncIn.room_configs[i]))

\* the example of the specification: reference 21.3, measured 19.8, current
\* 1.0 is queued at hysteresis 0.3 and not at 0.6
C11_ExampleHolds ==
    syncPc # "idle" =>
        \A i \in DOMAIN syncIn.room_configs :
            LET room_config == syncIn.room_configs[i]
            IN  /\ room_config = [serial |-> "V2", sensor |-> [kind |-> "num", v |-> 2130]]
                /\ syncIn.devices["V2"].temperature_offset = 100
                => (syncLog[i] = "updating" <=> syncIn.offset_hysteresis = 30)

\* ============================================ the auto-sync step of a cycle

\* C12: a cycle whose fetches and normalization succeed publishes its
\* snapshot and is a successful refresh, auto-sync enabled with mappings
\* configured included.
C12_AutoSyncNeverFailsCycle ==
    CycleEnded /\ cyc.normalized =>
        /\ lastUpdateSuccess
        /\ cyc.raised = "none"
        /\ coordData.built

\* C13: in a cycle whose fetches and normalization succeed the controller
\* runs exactly once if auto-sync is enabled and at least one room mapping
\* is configured, and not at all otherwise.
C13_ControllerRunsOncePerCycle ==
    CycleEnded /\ cyc.normalized =>
        cyc.syncRuns = IF config.auto_offset_sync /\ config.room_configs > 0
                       THEN 1 ELSE 0

\* ====================================================== the geofencing step

\* a mobile device with tracking enabled reports atHome
SomeTrackedDeviceAtHome ==
    \E i \in DOMAIN cyc.mobile_devices :
        cyc.mobile_devices[i].geoTrackingEnabled /\ cyc.mobile_devices[i].location = "home"

\* C14: a cycle pushes at most one presence value: HOME when a tracked
\* mobile device is at home and the fetched presence is AWAY, AWAY when none
\* is at home and the fetched presence is HOME, and nothing in every other
\* case (geofencing disabled, or the mobile devices not obtained, included).
C14_GeofencingPushRule ==
    /\ Len(cyc.pushes) <= 1
    /\ ~config.geofencing_enabled => cyc.pushes = <<>>
    /\ ~cyc.mobileFetched => cyc.pushes = <<>>
    /\ cyc.mobileFetched =>
          cyc.pushes = IF SomeTrackedDeviceAtHome /\ cyc.presence = "AWAY" THEN <<"HOME">>
                       ELSE IF ~SomeTrackedDeviceAtHome /\ cyc.presence = "HOME"
                       THEN <<"AWAY">>
                       ELSE <<>>

C14_Witness ==
    /\ CycleEnded
    /\ config.geofencing_enabled
    /\ cyc.presence = "AWAY"
    /\ Len(cyc.mobile_devices) = 2
    /\ SomeTrackedDeviceAtHome
    /\ cyc.pushes = <<"HOME">>

\* ================================================ how a cycle reports failure

\* C16: a cycle that fails because of an AuthError raises an exception of a
\* kind other than the one a cycle that fails because of an ApiError raises.
C16_AuthFailureDistinguishable ==
    CycleEnded /\ cyc.err = "AuthError" =>
        cyc.exception # UpdateData("ApiError", NoData).exception


\* ============================================== the API client, continued

\* C21: a request called while no access token is held ends with AuthError
\* without sending an API request or a refresh; a request called with an
\* access token whose expiry is more than 60 seconds away performs no refresh
\* in ensure_valid_token.
C21_NoTokenFailsFarExpiryNoRefresh ==
    \A s \in Serials :
        LET t == task[s] IN
        t.pc # "idle" =>
            /\ call.access = 0 =>
                  /\ t.pc = "done"
                  /\ t.out = "AuthError"
                  /\ t.sends = 0
                  /\ t.evCalls + t.calls401 = 0
                  /\ t.evPosts + t.posts401 = 0
            /\ call.access # 0 /\ call.expiry.has /\ ~t.near =>
                  /\ t.evCalls = 0
                  /\ t.evPosts = 0
                  /\ t.sends >= 1
                  /\ t.tok1 = call.access

C21_WitnessFarExpiry ==
    /\ call.kind = "op"
    /\ call.access # 0
    /\ call.expiry = [has |-> TRUE, t |-> 600, aware |-> TRUE]
    /\ now = 300
    /\ ~task["A"].near
    /\ task["A"].out = "json"
    /\ task["A"].evCalls = 0

C21_Witness ==
    /\ call.kind = "op"
    /\ call.access = 0
    /\ call.home # 0
    /\ callOut = "AuthError"
    /\ task["A"].sends = 0

\* ============================================ the device authorization

\* the credential is as it was when the call in progress or last completed
\* was made
CredentialAsCalled ==
    /\ accessToken = call.access
    /\ refreshToken = call.refresh
    /\ tokenExpiry = call.expiry

C22_WitnessIssued ==
    /\ call.kind = "poll_for_token"
    /\ auth.out = "True"
    /\ auth.posts = 2
    /\ refreshToken = 0

\* poll_for_token is in its loop
Polling == call.kind = "poll_for_token" /\ auth.pc \in {"tokenPost", "sleeping"}

\* C23: a network error or an authorization_pending answer does not end
\* poll_for_token: it sleeps, the sleep takes the interval, and it polls again
\* when the timeout has not elapsed by then; a poll whose answers are all of
\* these two kinds ends, and it ends by returning False once the timeout has
\* elapsed.
C23_RetriedUntilBudgetElapsed ==
    /\ [](call.kind = "poll_for_token" /\ auth.last \in {"pending", "neterr"} =>
            /\ auth.pc \in {"sleeping", "tokenPost", "done"}
            /\ auth.posts \in {auth.sleeps, auth.sleeps + 1}
            /\ auth.pc = "tokenPost" => now - auth.start_time < auth.timeout
            /\ auth.pc = "done" =>
                  /\ auth.out = "False"
                  /\ now - auth.start_time >= auth.timeout)
    /\ [][auth.pc = "sleeping" =>
            /\ now' = now + auth.interval
            /\ auth'.pc = IF now' - auth.start_time < auth.timeout
                          THEN "tokenPost" ELSE "done"]_vars
    /\ (Polling ~> auth.pc = "done")

C23_Witness ==
    /\ call.kind = "poll_for_token"
    /\ auth.pc = "tokenPost"
    /\ auth.last = "neterr"
    /\ auth.posts = 3

\* ============================================ the batch-offset entry point

\* C24: the entry point requests the refresh exactly once, after the batch
\* has joined every per-device write and returned its mapping, whether the
\* writes succeeded or failed, and then returns that mapping.
C24_RefreshOnceAfterAllWrites ==
    /\ entry.refreshRequests <= 1
    /\ entry.pc = "writing" => entry.refreshRequests = 0
    /\ entry.pc \in {"refreshing", "done"} /\ call.home # 0 =>
          /\ entry.refreshRequests = 1
          /\ call.kind = "batch"
          /\ callOut = "returned"
          /\ \A s \in call.keys : task[s].pc = "done"
          /\ entry.results = results
          /\ \A s \in Serials : entry.results[s] # "absent" <=> s \in call.keys
    /\ entry.pc = "done" /\ call.home # 0 => entry.out = "returned"

C24_Witness ==
    /\ entry.pc = "done"
    /\ entry.refreshRequests = 1
    /\ call.keys = {"A", "B"}
    /\ entry.results["A"] = "error"
    /\ entry.results["B"] = "error"

\* ================================================ the published snapshot

\* C25: the snapshot the coordinator has published is never modified: a step
\* of a poll cycle or of geofencing leaves it as it is, or is the successful
\* end of a cycle and replaces it by the object that cycle has built, which
\* is another object than the one published before.
C25_PublishedSnapshotNeverModified ==
    [][coordData.built =>
          \/ coordData' = coordData
          \/ /\ pollPc = "rooms_devices"
             /\ pollPc' = "idle"
             /\ lastUpdateSuccess'
             /\ coordData'.gen = cycles
             /\ coordData'.gen # coordData.gen]_vars

C25_Witness ==
    /\ CycleEnded
    /\ cycles = 2
    /\ lastUpdateSuccess
    /\ dataAtStart.built
    /\ dataAtStart.gen = 1
    /\ coordData.gen = 2
    /\ coordData.rooms # dataAtStart.rooms
    /\ cyc.pushes # <<>>

\* the auto-sync controller leaves the snapshot it is called with as it is
C25_ControllerLeavesSnapshot == [][syncIn' = syncIn]_vars

\* the batch-offset entry point leaves the published snapshot as it is
C25_EntryPointLeavesSnapshot == [][coordData' = coordData]_vars

\* ================================================== the credential

Credential == <<accessToken, refreshToken, tokenExpiry>>

\* the step is the 200 answer to the refresh of task s
RefreshAnswered200(s) ==
    /\ task[s].pc \in {"evRefresh", "r401"}
    /\ task'[s].pc \in {"wait1", "wait2"}
    /\ task'[s].ans.status = 200

\* the step is the 200 answer to a poll of poll_for_token
PollAnswered200 ==
    /\ call.kind = "poll_for_token"
    /\ auth.pc = "tokenPost"
    /\ auth'.pc = "done"
    /\ auth'.last = "token"

\* C26: a step changes the credential (access token, refresh token, expiry)
\* only when it is the 200 answer to a refresh or to a poll of
\* poll_for_token: every other step of a request, of a failed refresh, of a
\* failed or timed-out poll and of start_device_auth leaves all three fields
\* as they were.
C26_CredentialChangedOnlyByIssuance ==
    [][Credential' # Credential =>
          \/ \E s \in Serials : RefreshAnswered200(s)
          \/ PollAnswered200]_vars

C26_Witness ==
    /\ call.kind = "op"
    /\ task["A"].st1 = "401"
    /\ task["A"].ans.status = 400
    /\ task["A"].out = "AuthError"
    /\ call.expiry.has
    /\ CredentialAsCalled

C26_WitnessPoll ==
    /\ call.kind = "poll_for_token"
    /\ auth.out = "AuthError"
    /\ call.access # 0
    /\ CredentialAsCalled

\* how far a _request has got
Rank(t) ==
    IF t.pc = "idle" THEN 0
    ELSE IF t.pc = "evRefresh" THEN 1
    ELSE IF t.pc = "wait1" THEN 2
    ELSE IF t.pc = "r401" THEN 3
    ELSE IF t.pc = "wait2" THEN 4
    ELSE 5

\* C27: a request sends at most two API requests and performs at most two
\* refresh exchanges (one in ensure_valid_token, one after a 401), and every
\* step of it takes it further towards its end, so it ends after at most
\* four answers, also when every answer of the API is 401.
C27_RequestBounded ==
    /\ [](\A s \in Serials :
            LET t == task[s] IN
            /\ t.sends <= 2
            /\ t.evPosts <= 1
            /\ t.posts401 <= 1
            /\ t.evCalls <= 1
            /\ t.calls401 <= 1
            /\ t.st2 # "" => t.pc = "done")
    /\ [][\A s \in Serials :
            \/ task'[s] = task[s]
            \/ ~Busy
            \/ Rank(task'[s]) > Rank(task[s])]_vars

C27_Witness ==
    \E s \in Serials :
        /\ task[s].pc = "done"
        /\ task[s].evPosts = 1
        /\ task[s].posts401 = 1
        /\ task[s].sends = 2
        /\ task[s].st1 = "401"
        /\ task[s].st2 = "401"

\* ================================================ the other devices

\* the devices room r held when the object dev was built (objects are
\* numbered in the order they are built)
CountBefore(d, r, dev) ==
    Cardinality({j \in DOMAIN d.rooms.at[r].devices : d.rooms.at[r].devices[j].oid < dev.oid})

\* the first room, in iteration order, among those that held the most
\* devices when dev was built
GreatestRoomBefore(d, dev) ==
    LET order == d.rooms.order
        i == CHOOSE i \in DOMAIN order :
                 \A j \in DOMAIN order :
                     /\ CountBefore(d, order[j], dev) <= CountBefore(d, order[i], dev)
                     /\ j < i => CountBefore(d, order[j], dev) < CountBefore(d, order[i], dev)
    IN  order[i]

\* the payload of the i-th other device names no room of the snapshot
NamesNoRoom(i) == normIn.otherDevices[i].roomId \notin DOMAIN normOut.rooms.at

\* C28: a wall thermostat (TR04) among the other devices whose payload names
\* no existing room, some room holding a device when it is processed, is
\* associated with the first room, in iteration order, among those holding
\* the most devices at that time: it carries that room's id and name and is
\* in that room's device list.
C28_ThermostatJoinsGreatestRoom ==
    normOut.built =>
        \A i \in DOMAIN normOut.other_devices :
            LET dev == normOut.other_devices[i] IN
            /\ dev.device_type = "TR04"
            /\ NamesNoRoom(i)
            /\ \E r \in DOMAIN normOut.rooms.at : CountBefore(normOut, r, dev) > 0
            => LET best == GreatestRoomBefore(normOut, dev) IN
               /\ dev.room_id = best
               /\ dev.room_name = normOut.rooms.at[best].name
               /\ InList(dev, normOut.rooms.at[best].devices)

\* the case of the example: the thermostat is the first other device
C28_FirstThermostatJoinsGreatestRoom ==
    normOut.built /\ normOut.other_devices # <<>> =>
        LET dev == normOut.other_devices[1] IN
        /\ dev.device_type = "TR04"
        /\ NamesNoRoom(1)
        /\ \E r \in DOMAIN normOut.rooms.at : CountBefore(normOut, r, dev) > 0
        => LET best == GreatestRoomBefore(normOut, dev) IN
           /\ dev.room_id = best
           /\ dev.room_name = normOut.rooms.at[best].name
           /\ InList(dev, normOut.rooms.at[best].devices)

\* C29: an other device whose payload names no room of the snapshot and
\* that is no wall thermostat, or for which no room holds any device, is left
\* unassociated: it has no room id, no room name and is in no room's device
\* list.
C29_UnqualifiedLeftUnassociated ==
    normOut.built =>
        \A i \in DOMAIN normOut.other_devices :
            LET dev == normOut.other_devices[i] IN
            /\ NamesNoRoom(i)
            /\ \/ dev.device_type # "TR04"
               \/ \A r \in DOMAIN normOut.rooms.at : normOut.rooms.at[r].devices = <<>>
            => /\ dev.room_id = 0
               /\ dev.room_name = ""
               /\ RoomsHolding(normOut, dev) = {}

\* what holds of such a device: no room name, in no room's device list
C29_UnqualifiedInNoRoomList ==
    normOut.built =>
        \A i \in DOMAIN normOut.other_devices :
            LET dev == normOut.other_devices[i] IN
            /\ NamesNoRoom(i)
            /\ \/ dev.device_type # "TR04"
               \/ \A r \in DOMAIN normOut.rooms.at : normOut.rooms.at[r].devices = <<>>
            => /\ dev.room_name = ""
               /\ RoomsHolding(normOut, dev) = {}

\* ============================================== the skipped mappings

\* the device, its measurement or the reference temperature of the mapping
\* is unavailable
Unavailable(room_config) ==
    \/ room_config.serial = ""
    \/ room_config.serial \notin DOMAIN syncIn.devices
    \/ ~syncIn.devices[room_config.serial].measured
    \/ room_config.sensor.kind \in {"absent", "unknown", "unavailable", "text"}

\* C30: in a cycle whose fetches succeed, the controller being enabled with a
\* mapping configured, whether or not the mapping is skipped, the snapshot of
\* the cycle is published.
C30_SkippedMappingCycleStillPublished ==
    /\ CycleEnded
    /\ cyc.normalized
    /\ config.auto_offset_sync
    /\ config.room_configs > 0
    => /\ lastUpdateSuccess
       /\ coordData.built
       /\ coordData.gen = cycles

\* what holds of the controller once it is called: every mapping is
\* evaluated, and a mapping with something unavailable is skipped and queues
\* no write
C30_ControllerSkipsOnlyThatMapping ==
    syncPc # "idle" =>
        /\ Len(syncLog) = Len(syncIn.room_configs)
        /\ \A i \in DOMAIN syncIn.room_configs :
              LET room_config == syncIn.room_configs[i] IN
              /\ Unavailable(room_config) <=>
                    syncLog[i] \in {"unresolved", "not in data", "no measurement",
                                    "sensor unavailable", "invalid temperature"}
              /\ room_config.serial \in DOMAIN submitted =>
                    \E j \in DOMAIN syncIn.room_configs :
                        /\ syncIn.room_configs[j].serial = room_config.serial
                        /\ syncLog[j] = "updating"

\* ================================================== the room states

\* the nested object k of the room state is missing or null
Absent(room_data, k) == k \notin DOMAIN room_data \/ room_data[k] = Null

\* C31: a room state whose nested objects (sensor data, setting, manual
\* control, next schedule change, heating power, connection) are missing or
\* null is normalized without raising, the room being built with the fields
\* read from a missing or null object at None or at their default.
C31_MissingObjectsDegrade ==
    normOut.built =>
        LET room_data == normIn.rooms_data[1]
            room == normOut.rooms.at[1]
        IN  /\ 1 \in DOMAIN normOut.rooms.at
            /\ ~room.raised
            /\ Len(room.devices) = Len(ValveOrder)
            /\ Absent(room_data, "sensorDataPoints") =>
                  room.fields.current_temperature = Null /\ room.fields.humidity = Null
            /\ Absent(room_data, "setting") =>
                  /\ room.fields.target_temperature = Null
                  /\ room.fields.power = JStr("OFF")
            /\ Absent(room_data, "manualControlTermination") =>
                  /\ ~room.fields.manual_control_active
                  /\ room.fields.manual_control_remaining_seconds = Null
                  /\ room.fields.manual_control_type = Null
            /\ Absent(room_data, "nextScheduleChange") =>
                  /\ room.fields.next_schedule_change = Null
                  /\ room.fields.next_schedule_temperature = Null
            /\ Absent(room_data, "heatingPower") => room.fields.heating_power = JNum(0)
            /\ Absent(room_data, "connection") =>
                  room.fields.connection_state = JStr("DISCONNECTED")

C31_Witness ==
    /\ normOut.built
    /\ "sensorDataPoints" \notin DOMAIN normIn.rooms_data[1]
    /\ normIn.rooms_data[1].connection = Null
    /\ normOut.rooms.at[1].fields.current_temperature = Null
    /\ normOut.rooms.at[1].fields.target_temperature = JNum(210)
    /\ normOut.rooms.at[1].fields.connection_state = JStr("DISCONNECTED")

\* ============================================== the order of a cycle

\* the steps one step of the cycle may lead to: the next await of
\* _async_update_data, or its end
NextSteps(pc) ==
    IF pc = "idle" THEN {"home_state"}
    ELSE IF pc = "home_state"
    THEN {IF config.geofencing_enabled THEN "geo_mobile" ELSE "rooms", "idle"}
    ELSE IF pc = "geo_mobile" THEN {"geo_set", "rooms"}
    ELSE IF pc = "geo_set" THEN {"rooms"}
    ELSE IF pc = "rooms" THEN {"rooms_devices", "idle"}
    ELSE {"idle"}

\* this step publishes the snapshot of the cycle
Publishes == pollPc # "idle" /\ pollPc' = "idle" /\ cyc'.raised = "none"

\* the fetches of presence, of the rooms and of rooms-with-devices, then the
\* normalization, each after the one before it, the geofencing adjustment
\* between the first two if it is enabled, and the publication last
OrderOfSteps ==
    /\ pollPc' \in NextSteps(pollPc)
    /\ pollPc' = "geo_set" => cyc'.mobileFetched /\ cyc'.pushes # <<>>
    /\ pollPc' = "rooms" => cyc'.presence \in Presences
    /\ pollPc' = "rooms_devices" => cyc'.rooms_data \in PollRoomsData
    /\ cyc'.normalized => pollPc = "rooms_devices" /\ pollPc' = "idle"
    /\ Publishes =>
          /\ pollPc = "rooms_devices"
          /\ cyc'.normalized
          /\ coordData'.built
          /\ coordData'.gen = cycles
          /\ coordData'.presence = cyc.presence

\* C32: the steps of a cycle run in order, and in a cycle with the auto-sync
\* configured the controller runs after the normalization and the snapshot
\* is published after it.
C32_StepsInOrderWithAutoSync ==
    [][/\ OrderOfSteps
       /\ cyc'.normalized /\ pollPc = "rooms_devices" /\ ~NormalizeRaised(coordData')
          /\ config.auto_offset_sync /\ config.room_configs > 0
          => cyc'.syncRuns = 1 /\ Publishes]_vars

\* what holds of the cycle: the order of its other steps, and that no
\* snapshot is published by a cycle without its normalization
C32_StepsInOrder == [][OrderOfSteps]_vars

\* ======================================================= aware expiries

\* C33: whenever a token operation stores an expiry in the credential, the
\* expiry stored is a timezone-aware instant.
C33_StoredExpiryIsAware ==
    [][tokenExpiry' # tokenExpiry => tokenExpiry'.has /\ tokenExpiry'.aware]_vars

\* what holds: the expiry a refresh stores is aware, the one a poll for the
\* token stores is naive
C33_OnlyPollStoresNaive ==
    [][tokenExpiry' # tokenExpiry =>
          /\ tokenExpiry'.has
          /\ tokenExpiry'.aware = ~(auth.pc = "tokenPost" /\ auth'.out = "True")]_vars

\* ============================================ the refresh after a 401

\* the step ends the refresh task s started on a first answer of 401, the
\* refresh having failed: there was no refresh token to send, or the token
\* endpoint answered the POST with another status than 200 or not at all
RefreshAfter401Fails(s) ==
    /\ task'[s].pc = "done"
    /\ \/ task[s].pc = "r401"
       \/ task[s].pc = "wait1" /\ task'[s].st1 = "401"

\* C34: when the refresh after a 401 fails, the request is not sent again,
\* the call ends with the AuthError of the refresh, and the step leaves the
\* credential as it is.
C34_FailedRefreshAfter401 ==
    [][\A s \in Serials :
          RefreshAfter401Fails(s) =>
              /\ task'[s].out = "AuthError"
              /\ task'[s].sends = 1
              /\ task'[s].st2 = ""
              /\ Credential' = Credential]_vars

C34_Witness ==
    \E s \in Serials :
        /\ task[s].pc = "done"
        /\ task[s].st1 = "401"
        /\ task[s].posts401 = 1
        /\ task[s].ans.status = -1
        /\ task[s].out = "AuthError"
        /\ task[s].sends = 1
        /\ accessToken = task[s].tok1

C34_WitnessNoRefreshToken ==
    \E s \in Serials :
        /\ task[s].pc = "done"
        /\ task[s].st1 = "401"
        /\ task[s].posts401 = 0
        /\ task[s].out = "AuthError"

\* ================================================ the persisted tokens

\* C35: the 200 answer to a refresh leaves the token set it has just stored
\* in the client, the latest one issued, as the persisted one.
C35_RefreshPersisted ==
    [][(\E s \in Serials : RefreshAnswered200(s))
          => entryData' = issued' /\ accessToken' = issued']_vars

\* what holds: once the entry is set up no step writes the persisted token set
C35_PersistedOnlyBySetup == [][entryData' = entryData]_vars

\* =========================================== failures of the geofencing

\* the step is the failure of a call of the geofencing step
GeofencingFails ==
    /\ pollPc \in {"geo_mobile", "geo_set"}
    /\ ~(pollPc' = "geo_set" \/ (pollPc' = "rooms" /\ ~cyc'.geoError))

\* the step ends a cycle in which the geofencing step failed
EndsAfterGeofencingFailure == pollPc # "idle" /\ pollPc' = "idle" /\ cyc'.geoError

\* C36: when get_mobile_devices or set_presence fails in the geofencing step,
\* whatever the error, the cycle is not failed by it: it goes on to fetch the
\* rooms, and it publishes its snapshot when the rest of it completes, as a
\* cycle whose geofencing step succeeded does.
C36_GeofencingFailureSwallowed ==
    [][/\ GeofencingFails =>
             /\ pollPc' = "rooms"
             /\ cyc'.raised = "none"
             /\ lastUpdateSuccess' = lastUpdateSuccess
             /\ coordData' = coordData
       /\ EndsAfterGeofencingFailure =>
             /\ pollPc \in {"rooms", "rooms_devices"}
             /\ cyc'.normalized /\ AutoSyncGuard = "skip"
                => /\ cyc'.raised = "none"
                   /\ lastUpdateSuccess'
                   /\ coordData'.built /\ coordData'.gen = cycles]_vars

C36_Witness ==
    /\ CycleEnded
    /\ config.geofencing_enabled
    /\ cyc.geoError
    /\ cyc.pushes # <<>>
    /\ lastUpdateSuccess
    /\ coordData.built
    /\ coordData.gen = cycles

C36_WitnessMobileFetch ==
    /\ CycleEnded
    /\ cyc.geoError
    /\ ~cyc.mobileFetched
    /\ lastUpdateSuccess
    /\ coordData.gen = cycles

\* ============================================= the presence published

\* C37: the presence of the snapshot a cycle publishes is the one
\* get_home_state returned at the start of that cycle, whatever presence the
\* geofencing step of the cycle pushed.
C37_PublishedPresenceIsFetched ==
    [][Publishes =>
          /\ coordData'.built
          /\ coordData'.gen = cycles
          /\ coordData'.presence = cyc.presence
          /\ cyc'.presence = cyc.presence
          /\ cyc.pushes # <<>> => coordData'.presence # cyc.pushes[1]]_vars

C37_Witness ==
    /\ CycleEnded
    /\ lastUpdateSuccess
    /\ coordData.built
    /\ coordData.gen = cycles
    /\ cyc.pushes = <<"AWAY">>
    /\ ~cyc.geoError
    /\ coordData.presence = "HOME"

\* ======================================= several mappings of one device

\* what the loop computes for the i-th room_config
MappingAt(i) == SyncMapping(syncIn.room_configs[i], syncIn.devices, syncIn.offset_hysteresis)

\* the room_configs that resolve to device sn and passed the hysteresis
\* test, as the loop logged them (line 425)
Passing(sn) ==
    {i \in 1..Len(syncIn.room_configs) :
        syncIn.room_configs[i].serial = sn /\ syncLog[i] = "updating"}

LastOf(S) == CHOOSE i \in S : \A j \in S : j <= i

\* C38: the controller submits one offset for each device serial some
\* mapping queued a write for, and no other; when several mappings resolve
\* to one device, the offset submitted is that of the last of them, in the
\* order of room_configs, that passed the hysteresis test.
C38_OneWritePerDeviceLastWins ==
    syncPc # "idle" =>
        /\ DOMAIN submitted = {sn \in {"V1", "V2", "V9", ""} : Passing(sn) # {}}
        /\ \A sn \in DOMAIN submitted : submitted[sn] = MappingAt(LastOf(Passing(sn))).offset

\* two mappings of V1 pass the test with -3.0 and +3.0: +3.0, the later, is written
C38_Witness ==
    /\ syncPc = "writing"
    /\ Len(syncIn.room_configs) = 2
    /\ syncIn.room_configs[1] = [serial |-> "V1", sensor |-> [kind |-> "num", v |-> 1500]]
    /\ syncIn.room_configs[2] = [serial |-> "V1", sensor |-> [kind |-> "num", v |-> 3000]]
    /\ syncIn.devices["V1"].measured
    /\ syncIn.devices["V1"].temperature_offset = 100
    /\ Passing("V1") = {1, 2}
    /\ submitted = ("V1" :> Num(300))

\* the later mapping of V1 is within the hysteresis: the earlier one is written
C38_WitnessLaterSkipped ==
    /\ syncPc = "writing"
    /\ Len(syncIn.room_configs) = 2
    /\ syncIn.room_configs[1].serial = "V1"
    /\ syncIn.room_configs[2].serial = "V1"
    /\ Passing("V1") = {1}
    /\ syncLog[2] = "within hysteresis"
    /\ submitted = ("V1" :> MappingAt(1).offset)

\* ====================================================== the switches

\* C39: every call of async_turn_on or async_turn_off of a boost-mode or
\* child-lock switch issues its write through an operation of the API client
\* and, when the write has returned, has requested one coordinator refresh.
C39_SwitchWritesThenRefreshes ==
    \A i \in 1..Len(switchLog) :
        /\ switchLog[i].operation \in ApiAttributes
        /\ switchLog[i].result.writes = 1
        /\ switchLog[i].result.out = "returned" => switchLog[i].result.refreshRequests = 1

\* what holds: every such call raises AttributeError before any write and
\* before any refresh request
C39_SwitchRaisesAttributeError ==
    \A i \in 1..Len(switchLog) :
        switchLog[i].result = [out |-> "AttributeError", writes |-> 0, refreshRequests |-> 0]
====
